---- MODULE Spec2Model ----
(***************************************************************************)
(* Planning / consumption engine of the NL-Dashboard (src/src/lib/calc.ts, *)
(* src/unnamed/part_000, src/src/components/ProductionCalendar.tsx).       *)
(* The engine is a family of pure functions over a scenario snapshot; each *)
(* specification below draws a snapshot from bounded sets and applies the  *)
(* functions to it.                                                        *)
(***************************************************************************)
EXTENDS Integers, Sequences, FiniteSets, TLC

VARIABLES
    pc,                \* position: "input", then one value per applied operation
    tzOffsetHours,     \* the runtime's local time zone offset from UTC, in hours
    stock,             \* ScenarioData.stock
    batches,           \* ScenarioData.batches
    schedule,          \* ScenarioData.schedule
    maintenanceBlocks, \* ScenarioData.maintenanceBlocks
    consumed,          \* result of stockConsumptionFromCompletedBatches
    stockRows,         \* result of stockRemainingAfterProduction
    today,             \* the UTC day scheduleRiskSummary read from the clock
    risk,              \* result of scheduleRiskSummary
    gridStart,         \* first (local) day of the calendar's 42-day grid
    conflictFlags,     \* eventHasConflictOnDay(evt, evt.date) per rendered entry
    inventory,         \* ScenarioData.inventory (production-run generation)
    production,        \* ScenarioData.production (production-run generation)
    invConsumed,       \* result of inventoryConsumptionFromProduction
    todayAgain,        \* the UTC day a second scheduleRiskSummary call read
    riskAgain,         \* result of that second call on the same snapshot
    parsed,            \* result of parseItemQtyLinesToIdQty on a batch's rejects
    inputs,            \* ScenarioData.inputs (GlobalInputs)
    inputsAlt,         \* the inputs of a second snapshot compared with the first
    logistics,         \* ScenarioData.logistics
    warehouses,        \* ScenarioData.warehouses
    cost,              \* computeCostBreakdown of the snapshot
    costAlt,           \* computeCostBreakdown of the second snapshot
    exposure,          \* computeInventoryExposure of the snapshot
    exposureAlt,       \* computeInventoryExposure of the second snapshot
    machines,          \* ScenarioData.machines (stations)
    bottleneck,        \* result of bottleneckStation
    heap,              \* the JavaScript heap: object reference -> object
    stateRef,          \* reference of the AppState passed to duplicateScenario
    nextRef,           \* reference duplicateScenario returned
    stateBefore,       \* deep value of the input state when the call was made
    localRaw,          \* localStorage item under STORAGE_KEY
    remote,            \* Supabase client and the reply of its scenarios query
    loaded,            \* result of loadState
    sixPack,           \* SixPackInput row
    sixPackResult,     \* result of evaluateSixPack
    capas,             \* ScenarioData.capas
    selectedEventId,   \* ProductionCalendar state: id of the selected entry
    moveWholeBatch,    \* ProductionCalendar state: the "move whole batch" box
    nextUuid,          \* number of ids crypto.randomUUID has handed out
    lastOp,            \* the calendar handler that ran last, with its arguments
    appState,          \* App state: the AppState shown (origin and edit count)
    loading,           \* App state: loadState has not resolved yet
    hydrated,          \* App ref: hydrated.current
    syncStatus,        \* App state: 'idle' | 'syncing' | 'synced' | 'error'
    saves,             \* saveState calls made so far, with their upserts
    remoteStored,      \* the payload the scenarios table holds per name
    userEdits          \* number of state changes the user has made

clockVars == << todayAgain, riskAgain >>

costVars == << inputs, inputsAlt, logistics, warehouses, cost, costAlt,
               exposure, exposureAlt >>

capacityVars == << machines, bottleneck >>

storeVars == << heap, stateRef, nextRef, stateBefore, localRaw, remote, loaded >>

qualityVars == << sixPack, sixPackResult >>

calendarVars == << capas, selectedEventId, moveWholeBatch, nextUuid, lastOp >>

appVars == << appState, loading, hydrated, syncStatus, saves, remoteStored,
              userEdits >>

vars == << pc, tzOffsetHours, stock, batches, schedule, maintenanceBlocks,
           consumed, stockRows, today, risk, gridStart, conflictFlags,
           inventory, production, invConsumed, clockVars, parsed, costVars,
           capacityVars, storeVars, qualityVars, calendarVars, appVars >>

----------------------------------------------------------------------------
(* Bounds of the model.                                                    *)

MaxQty == 1        \* good / scrap quantities of a batch range over 0..MaxQty
MaxThreshold == 2  \* on-hand, minQty and reorderPointQty range over 0..MaxThreshold
MaxDay == 1        \* start days of schedule entries and maintenance: 0..MaxDay

----------------------------------------------------------------------------
(* Strings.  A text is kept as its lines, a line as the parts between its  *)
(* commas, every part a raw string; trimming, lower-casing and Number()    *)
(* are tabulated over the raw strings the model draws from.                *)

TrimTable ==
    (" M1 " :> "M1") @@ (" cap " :> "cap") @@ (" " :> "") @@ (" 2" :> "2")

Trim(x) == IF x \in DOMAIN TrimTable THEN TrimTable[x] ELSE x

LowerTable ==
    ("Resin" :> "resin") @@ ("RESIN" :> "resin") @@ ("Cap" :> "cap")

ToLowerCase(x) == IF x \in DOMAIN LowerTable THEN LowerTable[x] ELSE x

\* Number(str): a finite value, or NaN (finite = FALSE).  Number("") is 0.
NumberTable ==
    ("" :> 0) @@ ("1" :> 1) @@ ("2" :> 2) @@ ("3" :> 3) @@ ("5" :> 5)

NumberOf(x) ==
    IF x \in DOMAIN NumberTable
        THEN [finite |-> TRUE, val |-> NumberTable[x]]
        ELSE [finite |-> FALSE, val |-> 0]

RECURSIVE FilterSeq(_, _)
FilterSeq(seq, keep) ==
    IF seq = << >> THEN << >>
    ELSE IF Head(seq) \in keep
        THEN << Head(seq) >> \o FilterSeq(Tail(seq), keep)
        ELSE FilterSeq(Tail(seq), keep)

\* parseCsv: split on commas (the parts), trim each, drop the empty ones.
parseCsv(parts) ==
    LET trimmed == [i \in 1..Len(parts) |-> Trim(parts[i])]
    IN  FilterSeq(trimmed, {trimmed[i] : i \in 1..Len(trimmed)} \ {""})

SeqRange(seq) == {seq[i] : i \in 1..Len(seq)}

----------------------------------------------------------------------------
(* Scenario snapshot.                                                      *)

NoNumber == [isNumber |-> FALSE, val |-> 0]
Num(n) == [isNumber |-> TRUE, val |-> n]

processes ==
    << [id |-> "p1", name |-> "Assemble", stage |-> "Assembly"],
       [id |-> "p2", name |-> "Pack", stage |-> "Post-Assembly"] >>

Scenario ==
    [stock |-> stock, processes |-> processes, batches |-> batches,
     schedule |-> schedule, maintenanceBlocks |-> maintenanceBlocks]

----------------------------------------------------------------------------
(* Stock consumption engine (calc.ts).                                     *)

findStockIdByName(s, name) ==
    LET n == ToLowerCase(Trim(name))
        hits == {i \in 1..Len(s.stock) : ToLowerCase(Trim(s.stock[i].name)) = n}
    IN  IF hits = {} THEN "null"
        ELSE s.stock[CHOOSE i \in hits : \A j \in hits : i <= j].id

\* A line that is empty after trimming is dropped by filter(Boolean).
IsBlankLine(line) == Len(line) = 1 /\ Trim(line[1]) = ""

RECURSIVE parseLines(_, _, _)
parseLines(s, lines, out) ==
    IF lines = << >> THEN out
    ELSE LET line == Head(lines)
             id == findStockIdByName(s, line[1])
             qty == NumberOf(Trim(line[2]))
         IN  IF IsBlankLine(line) \/ Len(line) < 2
                 THEN parseLines(s, Tail(lines), out)
             ELSE IF id = "null" \/ ~qty.finite
                 THEN parseLines(s, Tail(lines), out)
             ELSE parseLines(s, Tail(lines),
                     IF id \in DOMAIN out
                         THEN [out EXCEPT ![id] = @ + qty.val]
                         ELSE out @@ (id :> qty.val))

\* The result maps stock ids to quantities; its domain is Object.keys(out).
parseItemQtyLinesToIdQty(s, text) == parseLines(s, text, << >>)

RECURSIVE addBomItems(_, _, _)
addBomItems(items, target, units) ==
    IF items = << >> THEN target
    ELSE LET item == Head(items)
             prev == IF item.id \in DOMAIN target THEN target[item.id] ELSE 0
             next == prev + units * item.usagePerFinishedUnit
         IN  addBomItems(Tail(items),
                 IF item.id \in DOMAIN target
                     THEN [target EXCEPT ![item.id] = next]
                     ELSE target @@ (item.id :> next),
                 units)

addBomConsumption(s, target, units) ==
    IF units = 0 THEN target ELSE addBomItems(s.stock, target, units)

completedBatchIds_byBatchStatus(s) ==
    {s.batches[i].id :
        i \in {j \in 1..Len(s.batches) : s.batches[j].status = "Complete"}}

completedBatchIds(s) ==
    {s.schedule[i].batchId :
        i \in {j \in 1..Len(s.schedule) : s.schedule[j].status = "Complete"}}

addRejects(target, compRejects) ==
    [id \in DOMAIN target \cup DOMAIN compRejects |->
        (IF id \in DOMAIN target THEN target[id] ELSE 0)
        + (IF id \in DOMAIN compRejects THEN compRejects[id] ELSE 0)]

\* The scrap of a gate-open batch with scrapQty /= 0 (calc.ts 222-233).
consumeScrap_dropUnitemised(s, target, b) ==
    IF b.scrapStage = "Post-Assembly"
        THEN addBomConsumption(s, target, b.scrapQty)
        ELSE addRejects(target, parseItemQtyLinesToIdQty(s, b.componentRejects))

consumeScrap_bomAndRejects(s, target, b) ==
    IF b.scrapStage = "Post-Assembly"
        THEN addBomConsumption(s, target, b.scrapQty)
        ELSE LET compRejects == parseItemQtyLinesToIdQty(s, b.componentRejects)
             IN  IF DOMAIN compRejects = {}
                     THEN addBomConsumption(s, target, b.scrapQty)
                     ELSE addRejects(addBomConsumption(s, target, b.scrapQty),
                                     compRejects)

consumeScrap(s, target, b) ==
    IF b.scrapStage = "Post-Assembly"
        THEN addBomConsumption(s, target, b.scrapQty)
        ELSE LET compRejects == parseItemQtyLinesToIdQty(s, b.componentRejects)
             IN  IF DOMAIN compRejects = {}
                     THEN addBomConsumption(s, target, b.scrapQty)
                     ELSE addRejects(target, compRejects)

\* One iteration of the loop over s.batches (calc.ts 214-234).
consumeBatch(s, target, b) ==
    IF b.id \notin completedBatchIds(s) THEN target
    ELSE LET good == addBomConsumption(s, target, b.goodQty)
         IN  IF b.scrapQty = 0 THEN good ELSE consumeScrap(s, good, b)

RECURSIVE consumeBatches(_, _, _)
consumeBatches(s, bs, target) ==
    IF bs = << >> THEN target
    ELSE consumeBatches(s, Tail(bs), consumeBatch(s, target, Head(bs)))

stockConsumptionFromCompletedBatches(s) ==
    consumeBatches(s, s.batches,
        [id \in {s.stock[i].id : i \in 1..Len(s.stock)} |-> 0])

stockStatus_reorderFirst(remaining, min, rop) ==
    IF rop.isNumber /\ remaining < rop.val THEN "Reorder"
    ELSE IF min.isNumber /\ remaining < min.val THEN "Below Min"
    ELSE "OK"

stockStatus(remaining, min, rop) ==
    IF min.isNumber /\ remaining < min.val THEN "Below Min"
    ELSE IF rop.isNumber /\ remaining < rop.val THEN "Reorder"
    ELSE "OK"

stockRemainingAfterProduction_clamped(s) ==
    LET cons == stockConsumptionFromCompletedBatches(s)
    IN  [i \in 1..Len(s.stock) |->
            LET it == s.stock[i]
                remaining == IF it.onHandQty < cons[it.id] THEN 0
                             ELSE it.onHandQty - cons[it.id]
            IN  [id |-> it.id, name |-> it.name, onHandQty |-> it.onHandQty,
                 consumedQty |-> cons[it.id], remainingQty |-> remaining,
                 reorderPointQty |-> it.reorderPointQty, minQty |-> it.minQty,
                 status |-> stockStatus(remaining, it.minQty, it.reorderPointQty)]]

stockRemainingAfterProduction(s) ==
    LET cons == stockConsumptionFromCompletedBatches(s)
    IN  [i \in 1..Len(s.stock) |->
            LET it == s.stock[i]
                remaining == it.onHandQty - cons[it.id]
            IN  [id |-> it.id, name |-> it.name, onHandQty |-> it.onHandQty,
                 consumedQty |-> cons[it.id], remainingQty |-> remaining,
                 reorderPointQty |-> it.reorderPointQty, minQty |-> it.minQty,
                 status |-> stockStatus(remaining, it.minQty, it.reorderPointQty)]]

----------------------------------------------------------------------------
(* Snapshots the specifications draw from.                                 *)

Stages == {"Assembly", "Post-Assembly"}

StockItem(id, name, usage, onHand, rop, min) ==
    [id |-> id, name |-> name, usagePerFinishedUnit |-> usage,
     onHandQty |-> onHand, reorderPointQty |-> rop, minQty |-> min]

DefaultStock ==
    << StockItem("s1", "Resin", 2, 3, NoNumber, NoNumber),
       StockItem("s2", "Cap", 1, 3, NoNumber, NoNumber) >>

BatchIds == << "b1", "b2" >>

RejectTexts == { << >>, << << "RESIN", " 2" >> >> }

BatchChoices ==
    [goodQty : 0..MaxQty, scrapQty : 0..MaxQty, scrapStage : Stages,
     componentRejects : RejectTexts]

Batch(id, c) ==
    [id |-> id, goodQty |-> c.goodQty, scrapStage |-> c.scrapStage,
     scrapQty |-> c.scrapQty, componentRejects |-> c.componentRejects]

BatchLists ==
    UNION { { [i \in 1..n |-> Batch(BatchIds[i], c[i])] : c \in [1..n -> BatchChoices] } :
            n \in 1..Len(BatchIds) }

Scheduled(id, batchId, processId, status, date, dur, people, machineIds) ==
    [id |-> id, batchId |-> batchId, date |-> date, durationDays |-> dur,
     processId |-> processId, assignedPeopleIdsCsv |-> people,
     assignedMachineIdsCsv |-> machineIds, status |-> status]

\* Every batch has at most one entry per process template (the chain that
\* createChainForBatchOnDay schedules), each Planned or Complete.
ChainStatuses == {"none", "Planned", "Complete"}

ChainLists(n) ==
    { FilterSeq(
        [k \in 1..(n * Len(processes)) |->
            LET b == ((k - 1) \div Len(processes)) + 1
                p == ((k - 1) % Len(processes)) + 1
            IN  Scheduled(<< BatchIds[b], processes[p].id >>, BatchIds[b],
                          processes[p].id, c[k],
                          0, 1, << >>, << >>)],
        { Scheduled(<< BatchIds[b], processes[p].id >>, BatchIds[b],
                    processes[p].id, st, 0, 1, << >>, << >>) :
            b \in 1..n, p \in 1..Len(processes), st \in ChainStatuses \ {"none"} }) :
      c \in [1..(n * Len(processes)) -> ChainStatuses] }

NoRisk == [ready |-> 0, atRisk |-> 0, blocked |-> 0]

\* Values of the variables a specification does not use.
IdleClock == todayAgain = 0 /\ riskAgain = NoRisk

IdleParse == parsed = << >>

IdleCost ==
    /\ inputs = << >> /\ inputsAlt = << >>
    /\ logistics = << >> /\ warehouses = << >>
    /\ cost = << >> /\ costAlt = << >>
    /\ exposure = << >> /\ exposureAlt = << >>

IdleCapacity == machines = << >> /\ bottleneck = << >>

IdleStore ==
    /\ heap = << >> /\ stateRef = 0 /\ nextRef = 0 /\ stateBefore = << >>
    /\ localRaw = << >> /\ remote = << >> /\ loaded = << >>

IdleQuality == sixPack = << >> /\ sixPackResult = << >>

NoOp == [op |-> "none", id |-> "null", day |-> 0, n |-> 0]

IdleCalendar ==
    /\ capas = << >> /\ selectedEventId = "null" /\ moveWholeBatch = TRUE
    /\ nextUuid = 0 /\ lastOp = NoOp

IdleApp ==
    /\ appState = << >> /\ loading = TRUE /\ hydrated = FALSE
    /\ syncStatus = "idle" /\ saves = << >>
    /\ remoteStored = << >> /\ userEdits = 0

\* Values of the variables an operation has not produced (yet).
IdleOutputs ==
    /\ consumed = << >>
    /\ stockRows = << >>
    /\ today = 0
    /\ risk = NoRisk
    /\ gridStart = 0
    /\ conflictFlags = << >>
    /\ invConsumed = << >>
    /\ IdleClock /\ IdleParse /\ IdleCost /\ IdleCapacity /\ IdleStore
    /\ IdleQuality /\ IdleCalendar /\ IdleApp

----------------------------------------------------------------------------
(* Spec: the stock consumption engine over batches and their schedule.     *)

Init ==
    /\ pc = "input"
    /\ tzOffsetHours = 0
    /\ stock = DefaultStock
    /\ batches \in BatchLists
    /\ schedule \in ChainLists(Len(batches))
    /\ maintenanceBlocks = << >>
    /\ inventory = << >>
    /\ production = << >>
    /\ IdleOutputs

\* App recomputes the remaining-stock view from the snapshot.
StockRemaining ==
    /\ pc = "input"
    /\ pc' = "stock"
    /\ consumed' = stockConsumptionFromCompletedBatches(Scenario)
    /\ stockRows' = stockRemainingAfterProduction(Scenario)
    /\ UNCHANGED << calendarVars, appVars,
                    tzOffsetHours, stock, batches, schedule, maintenanceBlocks,
                    today, risk, gridStart, conflictFlags, inventory, production,
                    invConsumed,
                    clockVars, parsed, costVars, capacityVars, storeVars,
                    qualityVars >>

Next == StockRemaining

Spec == Init /\ [][Next]_vars

----------------------------------------------------------------------------
(* SpecStatus: the remaining-stock view over stock thresholds.             *)

Thresholds == {NoNumber} \cup {Num(n) : n \in 0..MaxThreshold}

InitStatus ==
    /\ pc = "input"
    /\ tzOffsetHours = 0
    /\ \E onHand \in 0..MaxThreshold, rop \in Thresholds, min \in Thresholds :
          stock = << StockItem("s1", "Resin", 2, onHand, rop, min),
                     StockItem("s2", "Cap", 1, 3, NoNumber, Num(2)) >>
    /\ \E good \in 0..MaxQty :
          batches = << Batch("b1", [goodQty |-> good, scrapQty |-> 0,
                                    scrapStage |-> "Assembly",
                                    componentRejects |-> << >>]) >>
    /\ schedule = << Scheduled(<< "b1", "p1" >>, "b1", "p1", "Complete",
                               0, 1, << >>, << >>) >>
    /\ maintenanceBlocks = << >>
    /\ inventory = << >>
    /\ production = << >>
    /\ IdleOutputs

SpecStatus == InitStatus /\ [][Next]_vars

----------------------------------------------------------------------------
(* Vocabulary of the claims about the consumption engine.                  *)

\* The lifecycle stage an entry belongs to, through its process template.
EntryStage(s, e) ==
    LET hits == {i \in 1..Len(s.processes) : s.processes[i].id = e.processId}
    IN  IF hits = {} THEN "none" ELSE s.processes[CHOOSE i \in hits : TRUE].stage

\* Some entry of batch b in the given stage is Complete.
StageComplete(s, b, stage) ==
    \E i \in 1..Len(s.schedule) :
        /\ s.schedule[i].batchId = b.id
        /\ s.schedule[i].status = "Complete"
        /\ EntryStage(s, s.schedule[i]) = stage

\* Some entry of batch b is Complete, whatever its stage.
AnyComplete(s, b) == \E st \in Stages : StageComplete(s, b, st)

\* The snapshot with batch i replaced.
WithBatch(s, i, b) == [s EXCEPT !.batches[i] = b]

\* Batch b with the consumption of one stage taken out of it.
WithoutStage(b, stage) ==
    IF stage = "Assembly"
        THEN [b EXCEPT !.goodQty = 0,
                       !.scrapQty = IF b.scrapStage = "Assembly" THEN 0 ELSE @]
        ELSE [b EXCEPT !.scrapQty = IF b.scrapStage = "Post-Assembly" THEN 0 ELSE @]

RECURSIVE SumGoodAssembly(_, _)
SumGoodAssembly(s, bs) ==
    IF bs = << >> THEN 0
    ELSE (IF StageComplete(s, Head(bs), "Assembly") THEN Head(bs).goodQty ELSE 0)
         + SumGoodAssembly(s, Tail(bs))

\* C1: the consumption of a stage of a batch is counted only when an entry of
\* that batch in that same stage is Complete: while the stage's gate is closed,
\* the reported consumption is what it would be without that stage's quantities.
C1StageGate ==
    pc = "stock" =>
        \A i \in 1..Len(batches) : \A stage \in Stages :
            ~StageComplete(Scenario, batches[i], stage) =>
                consumed = stockConsumptionFromCompletedBatches(
                               WithBatch(Scenario, i, WithoutStage(batches[i], stage)))

\* C2: Post-Assembly scrap of a batch whose Complete entries are all
\* Assembly-stage ones adds nothing: consumption is that of the good units only.
C2PostAssemblyScrapGated ==
    pc = "stock" =>
        \A i \in 1..Len(batches) :
            ( /\ batches[i].scrapStage = "Post-Assembly"
              /\ batches[i].scrapQty > 0
              /\ StageComplete(Scenario, batches[i], "Assembly")
              /\ ~StageComplete(Scenario, batches[i], "Post-Assembly") )
            => consumed = stockConsumptionFromCompletedBatches(
                              WithBatch(Scenario, i, [batches[i] EXCEPT !.scrapQty = 0]))

\* C3: when no counted batch has scrap, every item's consumed quantity is its
\* usage per finished unit times the good quantity of the batches whose
\* Assembly stage is complete.
C3Additivity ==
    pc = "stock" =>
        ( (\A i \in 1..Len(batches) :
              AnyComplete(Scenario, batches[i]) => batches[i].scrapQty = 0)
          => \A k \in 1..Len(stock) :
                 consumed[stock[k].id] =
                     stock[k].usagePerFinishedUnit * SumGoodAssembly(Scenario, batches) )

\* C4: Assembly-stage scrap with empty component-reject text falls back to the
\* full BOM: it adds scrapQty x usage to every item, exactly as the same batch
\* with scrapStage = Post-Assembly does.
FallbackCase(i) ==
    /\ AnyComplete(Scenario, batches[i])
    /\ batches[i].scrapStage = "Assembly"
    /\ batches[i].scrapQty > 0
    /\ batches[i].componentRejects = << >>

C4ScrapFallback ==
    pc = "stock" =>
        \A i \in 1..Len(batches) :
            FallbackCase(i) =>
                /\ consumed = stockConsumptionFromCompletedBatches(
                       WithBatch(Scenario, i,
                                 [batches[i] EXCEPT !.scrapStage = "Post-Assembly"]))
                /\ \A k \in 1..Len(stock) :
                       consumed[stock[k].id] =
                           stockConsumptionFromCompletedBatches(
                               WithBatch(Scenario, i, [batches[i] EXCEPT !.scrapQty = 0])
                           )[stock[k].id]
                           + batches[i].scrapQty * stock[k].usagePerFinishedUnit

C4Witness ==
    /\ pc = "stock"
    /\ \E i \in 1..Len(batches) :
           /\ FallbackCase(i)
           /\ StageComplete(Scenario, batches[i], "Assembly")
           /\ batches[i].goodQty > 0
           /\ consumed["s1"] = (batches[i].goodQty + batches[i].scrapQty) * 2

\* C6: status is Below Min iff minQty is set and remaining < minQty; otherwise
\* Reorder iff reorderPointQty is set and remaining < reorderPointQty;
\* otherwise OK.
C6StatusClassification ==
    pc = "stock" =>
        /\ Len(stockRows) = Len(stock)
        /\ \A k \in 1..Len(stock) :
               LET it == stock[k]
                   remaining == it.onHandQty - consumed[it.id]
                   belowMin == it.minQty.isNumber /\ remaining < it.minQty.val
                   belowRop == it.reorderPointQty.isNumber
                               /\ remaining < it.reorderPointQty.val
               IN  /\ (stockRows[k].status = "Below Min") <=> belowMin
                   /\ (stockRows[k].status = "Reorder") <=> (~belowMin /\ belowRop)
                   /\ (stockRows[k].status = "OK") <=> (~belowMin /\ ~belowRop)

\* A remaining quantity below both thresholds, classified Below Min.
C6Witness ==
    /\ pc = "stock"
    /\ \E k \in 1..Len(stock) :
           /\ stock[k].minQty.isNumber
           /\ stock[k].reorderPointQty.isNumber
           /\ stockRows[k].remainingQty < stock[k].minQty.val
           /\ stockRows[k].remainingQty < stock[k].reorderPointQty.val
           /\ stock[k].minQty.val < stock[k].reorderPointQty.val
           /\ stockRows[k].status = "Below Min"

----------------------------------------------------------------------------
(* SpecProduction: the production-run generation of the engine             *)
(* (src/unnamed/part_000, data model of src/unnamed/part_002).             *)

RECURSIVE sumUnitsGood(_)
sumUnitsGood(runs) ==
    IF runs = << >> THEN 0
    ELSE (IF Head(runs).status = "Complete" THEN Head(runs).unitsGood ELSE 0)
         + sumUnitsGood(Tail(runs))

productionUnitsGoodCompleted(s) == sumUnitsGood(s.production)

inventoryConsumptionFromProduction(s) ==
    LET units == productionUnitsGoodCompleted(s)
        ids == {s.inventory[i].id : i \in 1..Len(s.inventory)}
    IN  [id \in ids |->
            LET last == CHOOSE i \in 1..Len(s.inventory) :
                            /\ s.inventory[i].id = id
                            /\ \A j \in 1..Len(s.inventory) :
                                   s.inventory[j].id = id => j <= i
            IN  units * s.inventory[last].usagePerProduct]

ProductionScenario == [inventory |-> inventory, production |-> production]

DefaultInventory ==
    << [id |-> "s1", name |-> "Resin", usagePerProduct |-> 2],
       [id |-> "s2", name |-> "Cap", usagePerProduct |-> 1] >>

RunIds == << "r1", "r2" >>

OverrideTexts == { << >>, << << "Resin", "5" >> >>, << << " cap ", "1" >> >> }

RunChoices ==
    [unitsGood : 0..MaxQty, status : {"Planned", "Complete"},
     consumptionOverrides : OverrideTexts]

ProductionRun(id, c) ==
    [id |-> id, unitsGood |-> c.unitsGood, unitsScrap |-> 0,
     scrapScope |-> "Full BOM", componentScrapOverrides |-> << >>,
     status |-> c.status, consumptionOverrides |-> c.consumptionOverrides]

RunLists ==
    UNION { { [i \in 1..n |-> ProductionRun(RunIds[i], c[i])] : c \in [1..n -> RunChoices] } :
            n \in 1..Len(RunIds) }

InitProduction ==
    /\ pc = "input"
    /\ tzOffsetHours = 0
    /\ stock = << >>
    /\ batches = << >>
    /\ schedule = << >>
    /\ maintenanceBlocks = << >>
    /\ inventory = DefaultInventory
    /\ production \in RunLists
    /\ IdleOutputs

\* App recomputes the inventory consumption from the production runs.
InventoryConsumption ==
    /\ pc = "input"
    /\ pc' = "production"
    /\ invConsumed' = inventoryConsumptionFromProduction(ProductionScenario)
    /\ UNCHANGED << calendarVars, appVars,
                    tzOffsetHours, stock, batches, schedule, maintenanceBlocks,
                    consumed, stockRows, today, risk, gridStart, conflictFlags,
                    inventory, production,
                    clockVars, parsed, costVars, capacityVars, storeVars,
                    qualityVars >>

NextProduction == InventoryConsumption

SpecProduction == InitProduction /\ [][NextProduction]_vars

\* The absolute overrides of a run: item id -> quantity, from its
\* "Item Name, Qty" lines.
OverridesOf(run) ==
    parseItemQtyLinesToIdQty([stock |-> inventory], run.consumptionOverrides)

\* What a run consumes of an item when overrides win last.
RunQtyWithOverride(run, item) ==
    IF item.id \in DOMAIN OverridesOf(run) THEN OverridesOf(run)[item.id]
    ELSE IF run.status = "Complete" THEN run.unitsGood * item.usagePerProduct
    ELSE 0

RECURSIVE SumRunQty(_, _)
SumRunQty(runs, item) ==
    IF runs = << >> THEN 0
    ELSE RunQtyWithOverride(Head(runs), item) + SumRunQty(Tail(runs), item)

\* C5: an absolute override naming an item on a (Complete) production run
\* replaces the computed quantity of that item on that run; items without an
\* override keep their computed quantity.
C5OverridePrecedence ==
    pc = "production" =>
        ( (\A i \in 1..Len(production) :
              DOMAIN OverridesOf(production[i]) # {} => production[i].status = "Complete")
          => \A k \in 1..Len(inventory) :
                 invConsumed[inventory[k].id] = SumRunQty(production, inventory[k]) )

----------------------------------------------------------------------------
(* Schedule conflict detector (calc.ts) and the calendar's per-day         *)
(* predicate (ProductionCalendar.tsx).  A 'YYYY-MM-DD' string is its day   *)
(* number; a Date is an instant, in hours since day 0 00:00 UTC.           *)

WindowDays == 7
GridDays == 42

\* new Date(day + 'T00:00:00'): midnight of that day in the local time zone.
localMidnight(day, tz) == day * 24 - tz

\* addDays: setDate(getDate() + days) keeps the local time of day.
addDays(date, days) == date + 24 * days

\* ymd: toISOString().slice(0, 10), the UTC calendar day of the instant.
ymd(date) == date \div 24

\* Number(durationDays) || 1
durationOf(x) == IF x.durationDays = 0 THEN 1 ELSE x.durationDays

\* The day strings the loops "for (i = 0; i < dur; i++)" produce.
spanDays(x, tz) ==
    {ymd(addDays(localMidnight(x.date, tz), i)) : i \in 0..(durationOf(x) - 1)}

occurrences(seq, x) == Cardinality({i \in 1..Len(seq) : seq[i] = x})

\* The tally addBooking builds for one day and one id, over the entries es.
RECURSIVE tally(_, _, _, _, _)
tally(es, day, id, kind, tz) ==
    IF es = << >> THEN 0
    ELSE LET evt == Head(es)
             csv == IF kind = "people" THEN evt.assignedPeopleIdsCsv
                    ELSE evt.assignedMachineIdsCsv
         IN  (IF evt.status # "Cancelled" /\ day \in spanDays(evt, tz)
                  THEN occurrences(parseCsv(csv), id) ELSE 0)
             + tally(Tail(es), day, id, kind, tz)

maintenanceBooking(s, machineId, day, tz) ==
    \E k \in 1..Len(s.maintenanceBlocks) :
        LET mb == s.maintenanceBlocks[k]
        IN  /\ mb.status # "Cancelled"
            /\ machineId \in SeqRange(parseCsv(mb.machineIdsCsv))
            /\ day \in spanDays(mb, tz)

\* The conflict test both views apply to an entry on a day of their map.
hasConflict(s, evt, day, tz) ==
    LET pIds == SeqRange(parseCsv(evt.assignedPeopleIdsCsv))
        mIds == SeqRange(parseCsv(evt.assignedMachineIdsCsv))
        doubleBooked ==
            \/ \E p \in pIds : tally(s.schedule, day, p, "people", tz) > 1
            \/ \E m \in mIds : tally(s.schedule, day, m, "machines", tz) > 1
        maintClash == \E m \in mIds : maintenanceBooking(s, m, day, tz)
    IN  doubleBooked \/ maintClash

windowDays(now) == {now + i : i \in 0..(WindowDays - 1)}

classify_conflictFirst(s, evt, now, tz) ==
    IF evt.date \notin windowDays(now) THEN "outside"
    ELSE IF hasConflict(s, evt, evt.date, tz) THEN "atRisk"
    ELSE IF evt.status \in {"Issue", "Quarantine", "Cancelled"} THEN "blocked"
    ELSE "ready"

\* One iteration of the evaluation loop (calc.ts 351-370).
classify(s, evt, now, tz) ==
    IF evt.date \notin windowDays(now) THEN "outside"
    ELSE IF evt.status \in {"Issue", "Quarantine", "Cancelled"} THEN "blocked"
    ELSE IF hasConflict(s, evt, evt.date, tz) THEN "atRisk"
    ELSE "ready"

RECURSIVE countClass(_, _, _, _, _)
countClass(s, es, class, now, tz) ==
    IF es = << >> THEN 0
    ELSE (IF classify(s, Head(es), now, tz) = class THEN 1 ELSE 0)
         + countClass(s, Tail(es), class, now, tz)

\* now: the UTC day of the clock reading "new Date()".
scheduleRiskSummary(s, now, tz) ==
    [ready |-> countClass(s, s.schedule, "ready", now, tz),
     atRisk |-> countClass(s, s.schedule, "atRisk", now, tz),
     blocked |-> countClass(s, s.schedule, "blocked", now, tz)]

\* gridDayStrings: ymd of the 42 local midnights from the grid's Monday.
gridDayStrings(start, tz) ==
    {ymd(addDays(localMidnight(start, tz), i)) : i \in 0..(GridDays - 1)}

eventHasConflictOnDay(s, evt, day, start, tz) ==
    IF day \notin gridDayStrings(start, tz) THEN FALSE
    ELSE hasConflict(s, evt, day, tz)

\* The month grid renders, for each of its days, the entries starting on it.
renderedConflicts(s, start, tz) ==
    [i \in {j \in 1..Len(s.schedule) : s.schedule[j].date \in gridDayStrings(start, tz)} |->
        eventHasConflictOnDay(s, s.schedule[i], s.schedule[i].date, start, tz)]

----------------------------------------------------------------------------
(* SpecSchedule: both conflict views over a two-entry schedule.            *)

TimeZones == {0, 10}
Todays == {-6, 0, 1}
GridStarts == {-7}
DurationValues == {0, 2}
EntryStatuses == {"Planned", "Issue", "Quarantine", "Cancelled"}
Assignments ==
    { [people |-> << "P1" >>, machines |-> << >>],
      [people |-> << >>, machines |-> << " M1 ", " " >>] }

EntryIds == << "e1", "e2" >>

EntryChoices ==
    [date : 0..MaxDay, durationDays : DurationValues, status : EntryStatuses,
     assigned : Assignments]

EntryLists ==
    UNION { { [i \in 1..n |->
                 Scheduled(EntryIds[i], "b1", "p1", c[i].status, c[i].date,
                           c[i].durationDays, c[i].assigned.people,
                           c[i].assigned.machines)] :
              c \in [1..n -> EntryChoices] } :
            n \in 1..Len(EntryIds) }

MaintenanceLists ==
    { << >> } \cup
    { << [id |-> "m1", date |-> d, durationDays |-> dur,
          machineIdsCsv |-> << "M1" >>, status |-> st] >> :
        d \in 0..MaxDay, dur \in DurationValues, st \in {"Planned", "Cancelled"} }

InitSchedule ==
    /\ pc = "input"
    /\ tzOffsetHours \in TimeZones
    /\ stock = << >>
    /\ batches = << >>
    /\ schedule \in EntryLists
    /\ maintenanceBlocks \in MaintenanceLists
    /\ inventory = << >>
    /\ production = << >>
    /\ IdleOutputs

\* The executive indicator is computed; it reads the clock for its window.
ScheduleRiskSummary ==
    /\ pc = "input"
    /\ pc' = "summary"
    /\ \E now \in Todays :
          /\ today' = now
          /\ risk' = scheduleRiskSummary(Scenario, now, tzOffsetHours)
    /\ UNCHANGED << calendarVars, appVars,
                    tzOffsetHours, stock, batches, schedule, maintenanceBlocks,
                    consumed, stockRows, gridStart, conflictFlags, inventory,
                    production, invConsumed,
                    clockVars, parsed, costVars, capacityVars, storeVars,
                    qualityVars >>

\* The calendar renders its month grid from the same snapshot.
RenderCalendar ==
    /\ pc = "summary"
    /\ pc' = "calendar"
    /\ \E start \in GridStarts :
          /\ gridStart' = start
          /\ conflictFlags' = renderedConflicts(Scenario, start, tzOffsetHours)
    /\ UNCHANGED << calendarVars, appVars,
                    tzOffsetHours, stock, batches, schedule, maintenanceBlocks,
                    consumed, stockRows, today, risk, inventory, production,
                    invConsumed,
                    clockVars, parsed, costVars, capacityVars, storeVars,
                    qualityVars >>

NextSchedule == ScheduleRiskSummary \/ RenderCalendar

SpecSchedule == InitSchedule /\ [][NextSchedule]_vars

----------------------------------------------------------------------------
(* Vocabulary of the claims about the conflict views.                      *)

BlockingStatuses == {"Issue", "Quarantine", "Cancelled"}

\* The class the summary gave entry i (it reports only the three counts).
ClassOf(i) == classify(Scenario, schedule[i], today, tzOffsetHours)

\* The calendar days [date, date + duration) of an entry or maintenance block.
CalendarSpan(x) == x.date..(x.date + durationOf(x) - 1)

MachinesOf(evt) == SeqRange(parseCsv(evt.assignedMachineIdsCsv))
PeopleOf(evt) == SeqRange(parseCsv(evt.assignedPeopleIdsCsv))

InWindow(day) == day >= today /\ day < today + WindowDays

\* Entries i and j are both live, share a machine and overlap on a window day.
MachineOverlap(i, j) ==
    /\ i # j
    /\ schedule[i].status # "Cancelled"
    /\ schedule[j].status # "Cancelled"
    /\ MachinesOf(schedule[i]) \cap MachinesOf(schedule[j]) # {}
    /\ \E d \in CalendarSpan(schedule[i]) \cap CalendarSpan(schedule[j]) : InWindow(d)

\* C7: two live entries that assign the same machine on overlapping days of
\* the window are both at risk (or blocked), whichever starts first and
\* whichever day they share (stated for the entries the summary classifies,
\* those that start in the window).
C7ConflictSymmetry ==
    pc = "summary" =>
        \A i, j \in 1..Len(schedule) :
            (MachineOverlap(i, j) /\ InWindow(schedule[i].date))
            => ClassOf(i) \in {"atRisk", "blocked"}

\* Some live maintenance block covers a machine of entry i on a day of its span.
MaintenanceInSpan(i) ==
    \E k \in 1..Len(maintenanceBlocks) :
        /\ maintenanceBlocks[k].status # "Cancelled"
        /\ MachinesOf(schedule[i])
             \cap SeqRange(parseCsv(maintenanceBlocks[k].machineIdsCsv)) # {}
        /\ CalendarSpan(schedule[i]) \cap CalendarSpan(maintenanceBlocks[k]) # {}

\* C8: a non-blocked entry starting in the window is at risk whenever a live
\* maintenance block covers one of its machines on any day of its span.
C8MaintenanceAnyDay ==
    pc = "summary" =>
        \A i \in 1..Len(schedule) :
            ( /\ InWindow(schedule[i].date)
              /\ schedule[i].status \notin BlockingStatuses
              /\ MaintenanceInSpan(i) )
            => ClassOf(i) = "atRisk"

\* C9: for an entry whose start day is in the grid and in the window, the
\* calendar's conflict flag on the start day is set iff the summary counts
\* the entry at risk.
C9ViewsAgree ==
    pc = "calendar" =>
        \A i \in 1..Len(schedule) :
            ( /\ i \in DOMAIN conflictFlags
              /\ InWindow(schedule[i].date) )
            => (conflictFlags[i] <=> ClassOf(i) = "atRisk")

\* The detector's tallies for the start day of entry i show a double booking
\* of one of its people or machines, or maintenance on one of its machines.
StartDayConflict(i) ==
    LET d == schedule[i].date
    IN  \/ \E p \in PeopleOf(schedule[i]) :
               tally(schedule, d, p, "people", tzOffsetHours) > 1
        \/ \E m \in MachinesOf(schedule[i]) :
               tally(schedule, d, m, "machines", tzOffsetHours) > 1
        \/ \E m \in MachinesOf(schedule[i]) :
               maintenanceBooking(Scenario, m, d, tzOffsetHours)

StartsInWindow == {i \in 1..Len(schedule) : InWindow(schedule[i].date)}
BlockedEntries == {i \in StartsInWindow : schedule[i].status \in BlockingStatuses}
AtRiskEntries == {i \in StartsInWindow \ BlockedEntries : StartDayConflict(i)}

----------------------------------------------------------------------------
(* SpecClock: the executive indicator computed twice on one snapshot.      *)

InitClock ==
    /\ pc = "input"
    /\ tzOffsetHours = 0
    /\ stock = << >>
    /\ batches = << >>
    /\ schedule \in EntryLists
    /\ maintenanceBlocks = << >>
    /\ inventory = << >>
    /\ production = << >>
    /\ IdleOutputs

\* The indicator is recomputed later from the same snapshot (a re-render);
\* the call has no date parameter and reads the clock again.
ScheduleRiskSummaryAgain ==
    /\ pc = "summary"
    /\ pc' = "again"
    /\ \E now \in Todays :
          /\ now >= today
          /\ todayAgain' = now
          /\ riskAgain' = scheduleRiskSummary(Scenario, now, tzOffsetHours)
    /\ UNCHANGED << calendarVars, appVars,
                    tzOffsetHours, stock, batches, schedule, maintenanceBlocks,
                    consumed, stockRows, today, risk, gridStart, conflictFlags,
                    inventory, production, invConsumed, parsed, costVars,
                    capacityVars, storeVars, qualityVars >>

NextClock == ScheduleRiskSummary \/ ScheduleRiskSummaryAgain

SpecClock == InitClock /\ [][NextClock]_vars

\* C11: two invocations of scheduleRiskSummary on the same snapshot return
\* identical counts, no matter when each of them is executed.
C11SamePerSnapshot ==
    pc = "again" => riskAgain = risk

----------------------------------------------------------------------------
(* JavaScript numbers of the cost model, kept exact as fractions n / d     *)
(* in lowest terms with d > 0.                                             *)

Abs(x) == IF x < 0 THEN -x ELSE x

RECURSIVE GCD(_, _)
GCD(a, b) == IF b = 0 THEN a ELSE GCD(b, a % b)

\* The number n / d (d # 0).
Q(n, d) ==
    LET g == GCD(Abs(n), Abs(d))
        sgn == IF d < 0 THEN -1 ELSE 1
    IN  [n |-> (sgn * n) \div g, d |-> (sgn * d) \div g]

Zero == Q(0, 1)

QAdd(x, y) == Q(x.n * y.d + y.n * x.d, x.d * y.d)

QSub(x, y) == Q(x.n * y.d - y.n * x.d, x.d * y.d)

QMul(x, y) == Q(x.n * y.n, x.d * y.d)

\* x / y for y # 0.
QDiv(x, y) == Q(x.n * y.d, x.d * y.n)

QLess(x, y) == x.n * y.d < y.n * x.d

QMax(x, y) == IF QLess(x, y) THEN y ELSE x

QMin(x, y) == IF QLess(y, x) THEN y ELSE x

\* An optional field of GlobalInputs: undefined, or a number.
Undefined == [defined |-> FALSE, value |-> Zero]

Defined(x) == [defined |-> TRUE, value |-> x]

\* field ?? dflt
Coalesce(field, dflt) == IF field.defined THEN field.value ELSE dflt

----------------------------------------------------------------------------
(* Cost model (calc.ts, second generation) and inventory exposure.         *)

safeDivide_nonZero(n, d) == IF d # Zero THEN QDiv(n, d) ELSE Zero

safeDivide(n, d) == IF QLess(Zero, d) THEN QDiv(n, d) ELSE Zero

scrapMultiplier_noFloor(s) ==
    QAdd(Q(1, 1), Coalesce(s.inputs.scrapRatePct, Zero))

scrapMultiplier(s) ==
    LET scrap == Coalesce(s.inputs.scrapRatePct, Zero)
    IN  QAdd(Q(1, 1), QMax(Zero, scrap))

holdingRateMonthly(s) ==
    LET annual == Coalesce(s.inputs.holdingRatePctAnnual, Q(24, 100))
    IN  QDiv(annual, Q(12, 1))

labourBase_flatRate(s) ==
    s.inputs.labourMinutesPerUnit

labourBase(s) ==
    QMul(QDiv(s.inputs.labourRatePerHour, Q(60, 1)), s.inputs.labourMinutesPerUnit)

\* seq.reduce((sum, x) => sum + term(x), 0), given the terms in order.
RECURSIVE SumOver(_, _)
SumOver(terms, i) ==
    IF i > Len(terms) THEN Zero
    ELSE QAdd(terms[i], SumOver(terms, i + 1))

computeCostBreakdown(s) ==
    LET v == QMul(s.inputs.monthlyDemand, scrapMultiplier(s))
        overheadPct == Coalesce(s.inputs.overheadPct, Q(25, 100))
        labourOverhead == QMul(labourBase(s), overheadPct)
        labour == labourBase(s)
        material ==
            SumOver([k \in 1..Len(s.stock) |->
                        QMul(s.stock[k].unitCost, s.stock[k].usagePerFinishedUnit)], 1)
        logisticsCost ==
            SumOver([k \in 1..Len(s.logistics) |->
                        safeDivide(s.logistics[k].costPerShipment,
                                   s.logistics[k].unitsPerShipment)], 1)
        warehouseMonthly ==
            SumOver([k \in 1..Len(s.warehouses) |-> s.warehouses[k].monthlyCost], 1)
        warehouse == safeDivide(warehouseMonthly, v)
        holding == QMul(material, holdingRateMonthly(s))
        capexDepreciation ==
            safeDivide(safeDivide(s.inputs.capexTotal, s.inputs.depreciationMonths), v)
        quality == s.inputs.qualityCostPerUnit
        total == QAdd(labour, QAdd(labourOverhead, QAdd(material,
                 QAdd(logisticsCost, QAdd(warehouse, QAdd(holding,
                 QAdd(capexDepreciation, quality)))))))
        marginPerUnit == QSub(s.inputs.salePricePerUnit, total)
        marginPct == QMul(safeDivide(marginPerUnit, s.inputs.salePricePerUnit), Q(100, 1))
    IN  [labour |-> labour, labourOverhead |-> labourOverhead,
         material |-> material, logistics |-> logisticsCost,
         warehouse |-> warehouse, holding |-> holding,
         capexDepreciation |-> capexDepreciation, quality |-> quality,
         total |-> total, marginPerUnit |-> marginPerUnit,
         marginPct |-> marginPct]

computeInventoryExposure(s) ==
    LET demand == QMul(s.inputs.monthlyDemand, scrapMultiplier(s))
        safetyStockDays == Coalesce(s.inputs.safetyStockDays, Q(14, 1))
        row(i) ==
            LET dailyDemand == QDiv(demand, Q(30, 1))
                pipelineUnits == QMul(dailyDemand, i.leadTimeDays)
                safetyStockUnits == QMul(dailyDemand, safetyStockDays)
                unitExtendedCost == QMul(i.unitCost, i.usagePerProduct)
            IN  [item |-> i.name, unitCost |-> unitExtendedCost,
                 usage |-> i.usagePerProduct, leadTimeDays |-> i.leadTimeDays,
                 monthlyDemand |-> demand, pipelineUnits |-> pipelineUnits,
                 pipelineValue |-> QMul(pipelineUnits, unitExtendedCost),
                 safetyStockUnits |-> safetyStockUnits,
                 safetyStockValue |-> QMul(safetyStockUnits, unitExtendedCost),
                 reorderPointUnits |-> QAdd(pipelineUnits, safetyStockUnits)]
    IN  [k \in 1..Len(s.inventory) |-> row(s.inventory[k])]

----------------------------------------------------------------------------
(* SpecCost: the cost model and the inventory exposure of two scenarios    *)
(* of the application state.                                               *)

GlobalInputs(sale, demand, minutes, scrap, overhead, holding, safety, months) ==
    [salePricePerUnit |-> sale, monthlyDemand |-> demand,
     labourRatePerHour |-> Q(30, 1), labourMinutesPerUnit |-> minutes,
     qualityCostPerUnit |-> Q(1, 1), scrapRatePct |-> scrap,
     overheadPct |-> overhead, holdingRatePctAnnual |-> holding,
     safetyStockDays |-> safety, capexTotal |-> Q(24, 1),
     depreciationMonths |-> months]

Amounts == { Q(-1, 1), Zero, Q(2, 1) }

InputChoices ==
    { GlobalInputs(sale, demand, minutes, scrap, overhead, holding, safety, months) :
        sale \in { Q(-1, 1), Zero, Q(10, 1) },
        demand \in Amounts,
        minutes \in { Zero, Q(2, 1) },
        scrap \in { Undefined, Defined(Q(-1, 2)), Defined(Q(1, 2)) },
        overhead \in { Undefined, Defined(Q(1, 2)) },
        holding \in { Undefined, Defined(Q(12, 100)) },
        safety \in { Undefined, Defined(Q(7, 1)) },
        months \in { Q(-1, 1), Zero, Q(12, 1) } }

\* The same inputs with a higher labour rate.
HigherRate(i) == [i EXCEPT !.labourRatePerHour = Q(60, 1)]

\* The same inputs with every optional field written out, holding the value
\* the engine falls back to.
WithDefaults(i) ==
    [i EXCEPT !.scrapRatePct = Defined(Coalesce(@, Zero)),
              !.overheadPct = Defined(Coalesce(@, Q(25, 100))),
              !.holdingRatePctAnnual = Defined(Coalesce(@, Q(24, 100))),
              !.safetyStockDays = Defined(Coalesce(@, Q(14, 1)))]

Lane(units) == [costPerShipment |-> Q(6, 1), unitsPerShipment |-> units]

LaneLists ==
    { << >> } \cup { << Lane(u) >> : u \in Amounts }
              \cup { << Lane(Q(3, 1)), Lane(u) >> : u \in Amounts }

CostScenario(in) ==
    [inputs |-> in, stock |-> stock, inventory |-> inventory,
     logistics |-> logistics, warehouses |-> warehouses]

InitCost ==
    /\ pc = "input"
    /\ tzOffsetHours = 0
    /\ stock = << [unitCost |-> Q(3, 1), usagePerFinishedUnit |-> Q(2, 1)] >>
    /\ batches = << >>
    /\ schedule = << >>
    /\ maintenanceBlocks = << >>
    /\ inventory = << [name |-> "Resin", unitCost |-> Q(3, 1),
                       usagePerProduct |-> Q(2, 1), leadTimeDays |-> Q(15, 1)] >>
    /\ production = << >>
    /\ consumed = << >> /\ stockRows = << >> /\ today = 0 /\ risk = NoRisk
    /\ gridStart = 0 /\ conflictFlags = << >> /\ invConsumed = << >>
    /\ IdleCalendar /\ IdleApp
    /\ IdleClock /\ IdleParse /\ IdleCapacity /\ IdleStore /\ IdleQuality
    /\ inputs \in InputChoices
    /\ inputsAlt \in { HigherRate(inputs), WithDefaults(inputs) }
    /\ logistics \in LaneLists
    /\ warehouses \in { << >>, << [monthlyCost |-> Q(4, 1)] >> }
    /\ cost = << >> /\ costAlt = << >>
    /\ exposure = << >> /\ exposureAlt = << >>

\* The cost breakdown of both scenarios is computed.
CostBreakdown ==
    /\ pc = "input"
    /\ pc' = "cost"
    /\ cost' = computeCostBreakdown(CostScenario(inputs))
    /\ costAlt' = computeCostBreakdown(CostScenario(inputsAlt))
    /\ UNCHANGED << calendarVars, appVars,
                    tzOffsetHours, stock, batches, schedule, maintenanceBlocks,
                    consumed, stockRows, today, risk, gridStart, conflictFlags,
                    inventory, production, invConsumed, clockVars, parsed,
                    inputs, inputsAlt, logistics, warehouses, exposure,
                    exposureAlt, capacityVars, storeVars, qualityVars >>

\* The inventory exposure of both scenarios is computed.
InventoryExposure ==
    /\ pc = "cost"
    /\ pc' = "exposure"
    /\ exposure' = computeInventoryExposure(CostScenario(inputs))
    /\ exposureAlt' = computeInventoryExposure(CostScenario(inputsAlt))
    /\ UNCHANGED << calendarVars, appVars,
                    tzOffsetHours, stock, batches, schedule, maintenanceBlocks,
                    consumed, stockRows, today, risk, gridStart, conflictFlags,
                    inventory, production, invConsumed, clockVars, parsed,
                    inputs, inputsAlt, logistics, warehouses, cost, costAlt,
                    capacityVars, storeVars, qualityVars >>

NextCost == CostBreakdown \/ InventoryExposure

SpecCost == InitCost /\ [][NextCost]_vars

----------------------------------------------------------------------------
(* Claims about the cost model.                                            *)

\* Effective monthly volume of the snapshot, from its inputs.
EffectiveVolume(in) ==
    QMul(in.monthlyDemand, QAdd(Q(1, 1), QMax(Zero, Coalesce(in.scrapRatePct, Zero))))

NotPositive(x) == ~ QLess(Zero, x)

\* Per-unit freight of the lanes whose units per shipment are positive.
RECURSIVE PositiveLaneFreight(_, _)
PositiveLaneFreight(lanes, i) ==
    IF i > Len(lanes) THEN Zero
    ELSE QAdd(IF NotPositive(lanes[i].unitsPerShipment) THEN Zero
              ELSE QDiv(lanes[i].costPerShipment, lanes[i].unitsPerShipment),
              PositiveLaneFreight(lanes, i + 1))

\* C12: in computeCostBreakdown every quotient with a non-positive
\* denominator is 0: no volume gives warehouse = capexDepreciation = 0 and
\* total = the sum of the remaining components; a lane with
\* unitsPerShipment <= 0 adds nothing to logistics; depreciationMonths <= 0
\* gives no depreciation; salePricePerUnit <= 0 gives marginPct = 0.
C12ZeroGuardedDivision ==
    pc = "cost" =>
        /\ NotPositive(EffectiveVolume(inputs)) =>
              /\ cost.warehouse = Zero
              /\ cost.capexDepreciation = Zero
              /\ cost.total = QAdd(cost.labour, QAdd(cost.labourOverhead,
                              QAdd(cost.material, QAdd(cost.logistics,
                              QAdd(cost.holding, cost.quality)))))
        /\ cost.logistics = PositiveLaneFreight(logistics, 1)
        /\ NotPositive(inputs.depreciationMonths) => cost.capexDepreciation = Zero
        /\ NotPositive(inputs.salePricePerUnit) => cost.marginPct = Zero

\* Zero demand with a warehouse to pay, a lane shipping no units, and the
\* total still made of the remaining components.
C12Witness ==
    /\ pc = "cost"
    /\ inputs.monthlyDemand = Zero
    /\ warehouses # << >>
    /\ \E i \in 1..Len(logistics) : logistics[i].unitsPerShipment = Zero
    /\ \E i \in 1..Len(logistics) : QLess(Zero, logistics[i].unitsPerShipment)
    /\ inputs.salePricePerUnit = Zero
    /\ QLess(Zero, cost.total)

\* The second scenario differs from the first in labourRatePerHour only,
\* and its rate is the higher one.
OnlyRateRaised ==
    /\ [inputsAlt EXCEPT !.labourRatePerHour = inputs.labourRatePerHour] = inputs
    /\ QLess(inputs.labourRatePerHour, inputsAlt.labourRatePerHour)

\* C13 (as stated): of two snapshots that differ only in labourRatePerHour,
\* the one with the strictly higher rate has a strictly higher labour
\* component.
C13LabourStrictlyMonotonic ==
    (pc = "cost" /\ OnlyRateRaised) => QLess(cost.labour, costAlt.labour)

\* C13 (amended): the labour component is strictly higher with the higher
\* rate when labourMinutesPerUnit is positive, and the same (0) when
\* labourMinutesPerUnit is 0.
C13LabourMonotonicInMinutes ==
    (pc = "cost" /\ OnlyRateRaised) =>
        /\ QLess(Zero, inputs.labourMinutesPerUnit) => QLess(cost.labour, costAlt.labour)
        /\ inputs.labourMinutesPerUnit = Zero =>
              cost.labour = Zero /\ costAlt.labour = Zero

C13Witness ==
    /\ pc = "cost"
    /\ OnlyRateRaised
    /\ QLess(Zero, inputs.labourMinutesPerUnit)
    /\ cost.labour = Q(1, 1)
    /\ costAlt.labour = Q(2, 1)

\* C16: a snapshot in which scrapRatePct, overheadPct, holdingRatePctAnnual
\* or safetyStockDays is absent gives the outputs of the snapshot with the
\* field set to 0, 0.25, 0.24 and 14; a negative scrap rate gives the
\* effective volume of scrap rate 0.
C16OptionalDefaults ==
    pc = "exposure" =>
        /\ inputsAlt = WithDefaults(inputs) =>
              cost = costAlt /\ exposure = exposureAlt
        /\ (inputs.scrapRatePct.defined /\ QLess(inputs.scrapRatePct.value, Zero)) =>
              /\ \A k \in 1..Len(exposure) :
                    exposure[k].monthlyDemand = inputs.monthlyDemand
              /\ QLess(Zero, inputs.monthlyDemand) =>
                    cost.warehouse =
                        QDiv(SumOver([k \in 1..Len(warehouses) |->
                                         warehouses[k].monthlyCost], 1),
                             inputs.monthlyDemand)

\* All four fields absent, compared with the written-out defaults, on a
\* snapshot with demand so that the defaults reach the outputs.
C16Witness ==
    /\ pc = "exposure"
    /\ inputsAlt = WithDefaults(inputs)
    /\ ~ inputs.scrapRatePct.defined
    /\ ~ inputs.overheadPct.defined
    /\ ~ inputs.holdingRatePctAnnual.defined
    /\ ~ inputs.safetyStockDays.defined
    /\ QLess(Zero, inputs.monthlyDemand)
    /\ QLess(Zero, inputs.labourMinutesPerUnit)
    /\ cost.labourOverhead = Q(1, 4)
    /\ exposure[1].safetyStockUnits = Q(14, 15)

----------------------------------------------------------------------------
(* Application state on the JavaScript heap (store generation kept in      *)
(* report.ts): objects are reached through references, so that sharing     *)
(* between two states is visible.                                          *)

ScenarioOrder == << "Pilot", "Ramp", "Scale" >>

ScenarioNames == { ScenarioOrder[i] : i \in 1..Len(ScenarioOrder) }

StateObj(selected, mapRef) ==
    [kind |-> "AppState", selectedScenario |-> selected, scenarios |-> mapRef]

MapObj(entries) == [kind |-> "Record", entries |-> entries]

ScenarioObj(name, inputsRef, auditLog) ==
    [kind |-> "ScenarioData", name |-> name, inputs |-> inputsRef,
     auditLog |-> auditLog]

InputsObj(price) == [kind |-> "GlobalInputs", salePricePerUnit |-> price]

\* A new object is allocated at the next free reference.
Alloc(h, obj) == [heap |-> Append(h, obj), ref |-> Len(h) + 1]

structuredCloneScenario_alias(h, r) == [heap |-> h, ref |-> r]

\* structuredClone of a scenario: the scenario object and its inputs object
\* are copied (arrays are kept by value in the scenario object).
structuredCloneScenario(h, r) ==
    LET a == Alloc(h, h[h[r].inputs])
    IN  Alloc(a.heap, [h[r] EXCEPT !.inputs = a.ref])

\* structuredClone of the entries of state.scenarios, in key order.
RECURSIVE cloneEntries(_, _, _, _)
cloneEntries(h, entries, i, acc) ==
    IF i > Len(ScenarioOrder) THEN [heap |-> h, entries |-> acc]
    ELSE LET n == ScenarioOrder[i]
         IN  IF n \notin DOMAIN entries
             THEN cloneEntries(h, entries, i + 1, acc)
             ELSE LET c == structuredCloneScenario(h, entries[n])
                  IN  cloneEntries(c.heap, entries, i + 1, (n :> c.ref) @@ acc)

\* structuredClone(state)
structuredCloneState(h, r) ==
    LET c == cloneEntries(h, h[h[r].scenarios].entries, 1, << >>)
        mapObj == Alloc(c.heap, MapObj(c.entries))
    IN  Alloc(mapObj.heap, [h[r] EXCEPT !.scenarios = mapObj.ref])

duplicateScenario(h, state, source, target) ==
    LET next == structuredCloneState(h, state)
        entries == h[h[state].scenarios].entries
    IN  IF source \notin DOMAIN entries
        THEN [heap |-> next.heap, ref |-> state]
        ELSE LET src == entries[source]
                 clone == structuredCloneScenario(next.heap, src)
                 copy == Alloc(clone.heap,
                               [clone.heap[clone.ref] EXCEPT
                                   !.name = target,
                                   !.auditLog = Append(h[src].auditLog, "Duplicated from")])
                 nextMap == copy.heap[next.ref].scenarios
                 h1 == [copy.heap EXCEPT ![nextMap].entries = (target :> copy.ref) @@ @]
                 h2 == [h1 EXCEPT ![next.ref].selectedScenario = target]
             IN  [heap |-> h2, ref |-> next.ref]

\* The value of a state: what any reader of it can observe.
DeepValue(h, r) ==
    LET entries == h[h[r].scenarios].entries
    IN  [selectedScenario |-> h[r].selectedScenario,
         scenarios |-> [n \in DOMAIN entries |->
                          [name |-> h[entries[n]].name,
                           salePricePerUnit |-> h[h[entries[n]].inputs].salePricePerUnit,
                           auditLog |-> h[entries[n]].auditLog]]]

\* The objects a state is made of.
Reach(h, r) ==
    LET entries == h[h[r].scenarios].entries
    IN  {r, h[r].scenarios}
          \cup { entries[n] : n \in DOMAIN entries }
          \cup { h[entries[n]].inputs : n \in DOMAIN entries }

----------------------------------------------------------------------------
(* SpecStore: a scenario is duplicated and the returned state is edited.   *)

\* The heap holding one state with the scenarios of the given names.
RECURSIVE HeapOfScenarios(_, _, _, _)
HeapOfScenarios(h, present, i, acc) ==
    IF i > Len(ScenarioOrder) THEN [heap |-> h, entries |-> acc]
    ELSE LET n == ScenarioOrder[i]
         IN  IF n \notin present
             THEN HeapOfScenarios(h, present, i + 1, acc)
             ELSE LET in == Alloc(h, InputsObj(390))
                      sc == Alloc(in.heap, ScenarioObj(n, in.ref, << >>))
                  IN  HeapOfScenarios(sc.heap, present, i + 1, (n :> sc.ref) @@ acc)

HeapOfState(present, selected) ==
    LET scs == HeapOfScenarios(<< >>, present, 1, << >>)
        mapObj == Alloc(scs.heap, MapObj(scs.entries))
    IN  Alloc(mapObj.heap, StateObj(selected, mapObj.ref))

InitStore ==
    /\ pc = "input"
    /\ tzOffsetHours = 0
    /\ stock = << >> /\ batches = << >> /\ schedule = << >>
    /\ maintenanceBlocks = << >> /\ inventory = << >> /\ production = << >>
    /\ consumed = << >> /\ stockRows = << >> /\ today = 0 /\ risk = NoRisk
    /\ gridStart = 0 /\ conflictFlags = << >> /\ invConsumed = << >>
    /\ IdleCalendar /\ IdleApp
    /\ IdleClock /\ IdleParse /\ IdleCost /\ IdleCapacity /\ IdleQuality
    /\ \E present \in (SUBSET ScenarioNames) \ { {} }, selected \in ScenarioNames :
          LET st == HeapOfState(present, selected)
          IN  heap = st.heap /\ stateRef = st.ref
    /\ nextRef = 0
    /\ stateBefore = << >>
    /\ localRaw = << >> /\ remote = << >> /\ loaded = << >>

\* setState(duplicateScenario(state, source, target))
DuplicateScenario ==
    /\ pc = "input"
    /\ pc' = "duplicated"
    /\ \E source \in ScenarioNames, target \in ScenarioNames :
          LET r == duplicateScenario(heap, stateRef, source, target)
          IN  /\ heap' = r.heap
              /\ nextRef' = r.ref
              /\ stateBefore' = [value |-> DeepValue(heap, stateRef),
                                 source |-> source, target |-> target]
    /\ UNCHANGED << calendarVars, appVars,
                    tzOffsetHours, stock, batches, schedule, maintenanceBlocks,
                    consumed, stockRows, today, risk, gridStart, conflictFlags,
                    inventory, production, invConsumed, clockVars, parsed,
                    costVars, capacityVars, stateRef, localRaw, remote, loaded,
                    qualityVars >>

\* next.scenarios[name].inputs.salePricePerUnit = 999
ModifySalePrice ==
    /\ pc = "duplicated"
    /\ pc' = "modified"
    /\ \E n \in DOMAIN heap[heap[nextRef].scenarios].entries :
          LET in == heap[heap[heap[nextRef].scenarios].entries[n]].inputs
          IN  heap' = [heap EXCEPT ![in].salePricePerUnit = 999]
    /\ UNCHANGED << calendarVars, appVars,
                    tzOffsetHours, stock, batches, schedule, maintenanceBlocks,
                    consumed, stockRows, today, risk, gridStart, conflictFlags,
                    inventory, production, invConsumed, clockVars, parsed,
                    costVars, capacityVars, stateRef, nextRef, stateBefore,
                    localRaw, remote, loaded, qualityVars >>

\* next.selectedScenario = name
ModifySelection ==
    /\ pc = "duplicated"
    /\ pc' = "modified"
    /\ \E n \in ScenarioNames :
          heap' = [heap EXCEPT ![nextRef].selectedScenario = n]
    /\ UNCHANGED << calendarVars, appVars,
                    tzOffsetHours, stock, batches, schedule, maintenanceBlocks,
                    consumed, stockRows, today, risk, gridStart, conflictFlags,
                    inventory, production, invConsumed, clockVars, parsed,
                    costVars, capacityVars, stateRef, nextRef, stateBefore,
                    localRaw, remote, loaded, qualityVars >>

NextStore == DuplicateScenario \/ ModifySalePrice \/ ModifySelection

SpecStore == InitStore /\ [][NextStore]_vars

SourceExists == stateBefore.source \in DOMAIN stateBefore.value.scenarios

\* C14 (as stated): duplicateScenario never mutates its input and returns a
\* state that shares no mutable structure with it, so that no later
\* modification of the returned state is observable in the input state.
C14NoSharing ==
    pc \in {"duplicated", "modified"} =>
        /\ Reach(heap, stateRef) \cap Reach(heap, nextRef) = {}
        /\ DeepValue(heap, stateRef) = stateBefore.value

\* C14 (amended): duplicateScenario never mutates its input; when the source
\* scenario exists it returns a new state that shares no object with the
\* input and holds the copy under the target name, so later modifications
\* of the returned state are not observable in the input; when the source
\* scenario does not exist it returns the input state object itself.
C14NoSharingWhenSourceExists ==
    pc \in {"duplicated", "modified"} =>
        /\ pc = "duplicated" => DeepValue(heap, stateRef) = stateBefore.value
        /\ SourceExists =>
              /\ Reach(heap, stateRef) \cap Reach(heap, nextRef) = {}
              /\ DeepValue(heap, stateRef) = stateBefore.value
              /\ stateBefore.target \in DOMAIN DeepValue(heap, nextRef).scenarios
              /\ pc = "duplicated" =>
                    /\ DeepValue(heap, nextRef).selectedScenario = stateBefore.target
                    /\ DeepValue(heap, nextRef).scenarios[stateBefore.target].salePricePerUnit =
                          stateBefore.value.scenarios[stateBefore.source].salePricePerUnit
        /\ ~ SourceExists => nextRef = stateRef

\* The copy's price was overwritten in the returned state and the source
\* scenario of the input state still has its own.
C14Witness ==
    /\ pc = "modified"
    /\ SourceExists
    /\ stateBefore.source # stateBefore.target
    /\ DeepValue(heap, nextRef).scenarios[stateBefore.target].salePricePerUnit = 999
    /\ DeepValue(heap, stateRef).scenarios[stateBefore.source].salePricePerUnit = 390

----------------------------------------------------------------------------
(* SpecParse: the component-rejects text of a batch is parsed.             *)

RejectLines ==
    { << "Resin", "1" >>, << "RESIN", " 2" >>, << " cap ", "3" >>,
      << "Bogus", "1" >>, << "Res", "1" >>, << "Cap" >>, << "Resin", "x" >>,
      << "Resin", "" >>, << " " >> }

ParseTexts ==
    { << >> } \cup { << a >> : a \in RejectLines }
              \cup { << a, b >> : a \in RejectLines, b \in RejectLines }

InitParse ==
    /\ pc = "input"
    /\ tzOffsetHours = 0
    /\ stock = DefaultStock
    /\ \E text \in ParseTexts :
          batches = << Batch("b1", [goodQty |-> 0, scrapQty |-> 1,
                                    scrapStage |-> "Assembly",
                                    componentRejects |-> text]) >>
    /\ schedule = << Scheduled(<< "b1", "p1" >>, "b1", "p1", "Complete",
                               0, 1, << >>, << >>) >>
    /\ maintenanceBlocks = << >>
    /\ inventory = << >>
    /\ production = << >>
    /\ IdleOutputs

\* The rejects text of the batch is parsed against the stock list.
ParseRejects ==
    /\ pc = "input"
    /\ pc' = "parsed"
    /\ parsed' = parseItemQtyLinesToIdQty(Scenario, batches[1].componentRejects)
    /\ UNCHANGED << calendarVars, appVars,
                    tzOffsetHours, stock, batches, schedule, maintenanceBlocks,
                    consumed, stockRows, today, risk, gridStart, conflictFlags,
                    inventory, production, invConsumed, clockVars, costVars,
                    capacityVars, storeVars, qualityVars >>

\* The rejects text is parsed on its own, or by the consumption engine on its
\* way through the batch (calc.ts 224-232).
NextParse == ParseRejects \/ StockRemaining

SpecParse == InitParse /\ [][NextParse]_vars

\* What a reader expects of the lines above: the item a name stands for
\* (case-insensitive, exact after trimming) and the quantity a numeral
\* stands for.
NamedItem == ("Resin" :> "s1") @@ ("RESIN" :> "s1") @@ (" cap " :> "s2")

NumeralValue == ("1" :> 1) @@ (" 2" :> 2) @@ ("3" :> 3)

WellFormed(line) ==
    /\ Len(line) >= 2
    /\ line[1] \in DOMAIN NamedItem
    /\ line[2] \in DOMAIN NumeralValue

RECURSIVE SumWellFormed(_, _, _)
SumWellFormed(text, id, i) ==
    IF i > Len(text) THEN 0
    ELSE (IF WellFormed(text[i]) /\ NamedItem[text[i][1]] = id
              THEN NumeralValue[text[i][2]] ELSE 0)
         + SumWellFormed(text, id, i + 1)

\* C15: parseItemQtyLinesToIdQty skips a malformed line (no comma,
\* non-numeric quantity) and a line naming an unknown item, applies the
\* well-formed lines, resolves names case-insensitively and exactly after
\* trimming, and sums the lines that name the same item.
C15ParseSkipsMalformed ==
    pc = "parsed" =>
        LET text == batches[1].componentRejects
        IN  /\ DOMAIN parsed =
                  { NamedItem[text[i][1]] : i \in { j \in 1..Len(text) : WellFormed(text[j]) } }
            /\ \A id \in DOMAIN parsed : parsed[id] = SumWellFormed(text, id, 1)

----------------------------------------------------------------------------
(* Station capacity and bottleneck (capacity generation of the engine).    *)

computeStationCapacity(s) ==
    LET demand == QMul(s.inputs.monthlyDemand, scrapMultiplier(s))
        monthlySecs == QMul(s.inputs.availableMinutesPerMonth, Q(60, 1))
        row(m) ==
            LET perMachineCapacity ==
                    safeDivide(QMul(monthlySecs, s.inputs.oee), m.cycleTimeSec)
                capacityUnitsPerMonth == QMul(perMachineCapacity, m.machinesInstalled)
                requiredMachines == safeDivide(demand, perMachineCapacity)
            IN  [station |-> m.station, cycleTimeSec |-> m.cycleTimeSec,
                 installed |-> m.machinesInstalled,
                 capacityUnitsPerMonth |-> capacityUnitsPerMonth,
                 requiredUnitsPerMonth |-> demand,
                 utilizationPct |-> QMul(safeDivide(demand, capacityUnitsPerMonth), Q(100, 1)),
                 requiredMachines |-> requiredMachines,
                 shortfallMachines |->
                     QMax(Zero, QSub(requiredMachines, m.machinesInstalled))]
    IN  [k \in 1..Len(s.machines) |-> row(s.machines[k])]

pickWorst_orEqual(worst, r) ==
    IF ~ QLess(r.utilizationPct, worst.utilizationPct) THEN r ELSE worst

\* (worst, r) => (r.utilizationPct > worst.utilizationPct ? r : worst)
pickWorst(worst, r) ==
    IF QLess(worst.utilizationPct, r.utilizationPct) THEN r ELSE worst

RECURSIVE reduceWorst(_, _, _)
reduceWorst(rows, i, worst) ==
    IF i > Len(rows) THEN worst
    ELSE reduceWorst(rows, i + 1, pickWorst(worst, rows[i]))

\* The result is null, or a row.
NullRow == [isNull |-> TRUE, row |-> << >>]

bottleneckStation(s) ==
    LET rows == computeStationCapacity(s)
    IN  IF Len(rows) = 0 THEN NullRow
        ELSE [isNull |-> FALSE, row |-> reduceWorst(rows, 1, rows[1])]

----------------------------------------------------------------------------
(* SpecCapacity: the bottleneck of a station list.                         *)

StationChoices ==
    { [cycleTimeSec |-> c, machinesInstalled |-> n] :
        c \in { Zero, Q(30, 1), Q(60, 1) }, n \in { Zero, Q(1, 1), Q(2, 1) } }

StationNames == << "S1", "S2", "S3" >>

StationLists ==
    UNION { { [i \in 1..n |->
                 [station |-> StationNames[i], cycleTimeSec |-> c[i].cycleTimeSec,
                  machinesInstalled |-> c[i].machinesInstalled]] :
                c \in [1..n -> StationChoices] } : n \in 0..Len(StationNames) }

CapacityScenario == [inputs |-> inputs, machines |-> machines]

InitCapacity ==
    /\ pc = "input"
    /\ tzOffsetHours = 0
    /\ stock = << >> /\ batches = << >> /\ schedule = << >>
    /\ maintenanceBlocks = << >> /\ inventory = << >> /\ production = << >>
    /\ consumed = << >> /\ stockRows = << >> /\ today = 0 /\ risk = NoRisk
    /\ gridStart = 0 /\ conflictFlags = << >> /\ invConsumed = << >>
    /\ IdleCalendar /\ IdleApp
    /\ IdleClock /\ IdleParse /\ IdleStore /\ IdleQuality
    /\ \E demand \in { Zero, Q(50, 1), Q(150, 1) } :
          inputs = [monthlyDemand |-> demand, scrapRatePct |-> Undefined,
                    availableMinutesPerMonth |-> Q(100, 1), oee |-> Q(1, 2)]
    /\ inputsAlt = << >>
    /\ logistics = << >> /\ warehouses = << >>
    /\ cost = << >> /\ costAlt = << >>
    /\ exposure = << >> /\ exposureAlt = << >>
    /\ machines \in StationLists
    /\ bottleneck = << >>

\* The dashboard asks for the bottleneck of the snapshot.
BottleneckStation ==
    /\ pc = "input"
    /\ pc' = "bottleneck"
    /\ bottleneck' = bottleneckStation(CapacityScenario)
    /\ UNCHANGED << calendarVars, appVars,
                    tzOffsetHours, stock, batches, schedule, maintenanceBlocks,
                    consumed, stockRows, today, risk, gridStart, conflictFlags,
                    inventory, production, invConsumed, clockVars, parsed,
                    costVars, machines, storeVars, qualityVars >>

NextCapacity == BottleneckStation

SpecCapacity == InitCapacity /\ [][NextCapacity]_vars

CapacityRows == computeStationCapacity(CapacityScenario)

\* C17: bottleneckStation returns null when there are no stations, and
\* otherwise a station whose utilizationPct is the maximum over all
\* stations, the first such station in input order on ties.
C17BottleneckFirstMax ==
    pc = "bottleneck" =>
        /\ machines = << >> => bottleneck.isNull
        /\ machines # << >> =>
              /\ ~ bottleneck.isNull
              /\ \E i \in 1..Len(CapacityRows) :
                    /\ bottleneck.row = CapacityRows[i]
                    /\ \A j \in 1..Len(CapacityRows) :
                          ~ QLess(CapacityRows[i].utilizationPct,
                                  CapacityRows[j].utilizationPct)
                    /\ \A j \in 1..(i - 1) :
                          QLess(CapacityRows[j].utilizationPct,
                                CapacityRows[i].utilizationPct)

\* Three loaded stations, the second and the third tied at the maximum:
\* the second is returned.
C17Witness ==
    /\ pc = "bottleneck"
    /\ Len(machines) = 3
    /\ QLess(Zero, CapacityRows[1].utilizationPct)
    /\ QLess(CapacityRows[1].utilizationPct, CapacityRows[2].utilizationPct)
    /\ CapacityRows[3].utilizationPct = CapacityRows[2].utilizationPct
    /\ CapacityRows[3] # CapacityRows[2]
    /\ ~ bottleneck.isNull
    /\ bottleneck.row.station = "S2"

----------------------------------------------------------------------------
(* Loading the application state (store.ts).  States are kept by value     *)
(* here: JSON.parse and structuredClone build fresh objects.               *)

AppStateValue(selected, scenarios) ==
    [selectedScenario |-> selected, scenarios |-> scenarios]

defaultState ==
    AppStateValue("Pilot", [n \in ScenarioNames |-> "default"])

\* localStorage.getItem: null ("null"), or the stored string; a string is
\* empty ("empty"), not JSON ("garbage"), or the JSON.stringify of a state
\* ("json").
LocalItem(kind, st) == [kind |-> kind, state |-> st]

loadStateLocal(raw) ==
    IF raw.kind \in {"null", "empty"} THEN defaultState
    ELSE IF raw.kind = "json" THEN raw.state
    ELSE defaultState

applyRow_keepLocal(scenarios, row) == scenarios @@ (row.name :> row.payload)

\* scenarios[row.name] = row.payload
applyRow(scenarios, row) == (row.name :> row.payload) @@ scenarios

RECURSIVE applyRows(_, _, _)
applyRows(scenarios, data, i) ==
    IF i > Len(data) THEN scenarios
    ELSE applyRows(applyRow(scenarios, data[i]), data, i + 1)

loadState(raw, supabase) ==
    LET local == loadStateLocal(raw)
    IN  IF ~ supabase.configured THEN local
        ELSE IF supabase.error \/ supabase.data.isNull \/ Len(supabase.data.rows) = 0
            THEN local
        ELSE [selectedScenario |-> local.selectedScenario,
              scenarios |-> applyRows(local.scenarios, supabase.data.rows, 1)]

----------------------------------------------------------------------------
(* SpecLoad: the state is loaded at start-up.                              *)

LocalItems ==
    { LocalItem(kind, << >>) : kind \in {"null", "empty", "garbage"} }
        \cup { LocalItem("json", AppStateValue(sel, [n \in names |-> "local"])) :
                  sel \in {"Pilot", "Ramp"}, names \in { {"Pilot"}, {"Pilot", "Ramp"} } }

ScenarioRows ==
    { [name |-> n, payload |-> p] : n \in {"Pilot", "Scale"}, p \in {"remoteA", "remoteB"} }

RowLists ==
    { << >> } \cup { << a >> : a \in ScenarioRows }
              \cup { << a, b >> : a \in ScenarioRows, b \in ScenarioRows }

Reply(error, isNull, rows) ==
    [configured |-> TRUE, error |-> error, data |-> [isNull |-> isNull, rows |-> rows]]

Remotes ==
    { [configured |-> FALSE, error |-> FALSE, data |-> [isNull |-> TRUE, rows |-> << >>]],
      Reply(TRUE, TRUE, << >>), Reply(FALSE, TRUE, << >>) }
        \cup { Reply(FALSE, FALSE, rows) : rows \in RowLists }

InitLoad ==
    /\ pc = "input"
    /\ tzOffsetHours = 0
    /\ stock = << >> /\ batches = << >> /\ schedule = << >>
    /\ maintenanceBlocks = << >> /\ inventory = << >> /\ production = << >>
    /\ consumed = << >> /\ stockRows = << >> /\ today = 0 /\ risk = NoRisk
    /\ gridStart = 0 /\ conflictFlags = << >> /\ invConsumed = << >>
    /\ IdleCalendar /\ IdleApp
    /\ IdleClock /\ IdleParse /\ IdleCost /\ IdleCapacity /\ IdleQuality
    /\ heap = << >> /\ stateRef = 0 /\ nextRef = 0 /\ stateBefore = << >>
    /\ localRaw \in LocalItems
    /\ remote \in Remotes
    /\ loaded = << >>

\* App start: loadState().then(setState)
LoadState ==
    /\ pc = "input"
    /\ pc' = "loaded"
    /\ loaded' = loadState(localRaw, remote)
    /\ UNCHANGED << calendarVars, appVars,
                    tzOffsetHours, stock, batches, schedule, maintenanceBlocks,
                    consumed, stockRows, today, risk, gridStart, conflictFlags,
                    inventory, production, invConsumed, clockVars, parsed,
                    costVars, capacityVars, heap, stateRef, nextRef, stateBefore,
                    localRaw, remote, qualityVars >>

NextLoad == LoadState

SpecLoad == InitLoad /\ [][NextLoad]_vars

\* The locally stored state, or defaultState when there is none to parse.
LocalOrDefault ==
    IF localRaw.kind = "json" THEN localRaw.state ELSE defaultState

RemoteRows ==
    IF remote.configured /\ ~ remote.error /\ ~ remote.data.isNull
        THEN remote.data.rows ELSE << >>

RowsNamed(n) == { i \in 1..Len(RemoteRows) : RemoteRows[i].name = n }

\* C18: loadState returns exactly the locally stored state (defaultState
\* when local storage is empty or unparseable) when Supabase is not
\* configured, the query errors or it yields no rows; otherwise the local
\* scenarios with each remote row replacing the scenario of the same name,
\* under the local selectedScenario.
C18LoadFallback ==
    pc = "loaded" =>
        /\ RemoteRows = << >> => loaded = LocalOrDefault
        /\ RemoteRows # << >> =>
              /\ loaded.selectedScenario = LocalOrDefault.selectedScenario
              /\ DOMAIN loaded.scenarios =
                    DOMAIN LocalOrDefault.scenarios
                        \cup { RemoteRows[i].name : i \in 1..Len(RemoteRows) }
              /\ \A n \in DOMAIN loaded.scenarios :
                    IF RowsNamed(n) = {}
                        THEN loaded.scenarios[n] = LocalOrDefault.scenarios[n]
                        ELSE \E i \in RowsNamed(n) :
                                /\ \A j \in RowsNamed(n) : j <= i
                                /\ loaded.scenarios[n] = RemoteRows[i].payload

\* A stored local state with two scenarios, one of them replaced by a
\* remote row, the other kept, and a remote-only scenario added.
C18Witness ==
    /\ pc = "loaded"
    /\ localRaw.kind = "json"
    /\ localRaw.state.selectedScenario = "Ramp"
    /\ Len(RemoteRows) = 2
    /\ loaded.selectedScenario = "Ramp"
    /\ DOMAIN loaded.scenarios = {"Pilot", "Ramp", "Scale"}
    /\ loaded.scenarios["Pilot"] = "remoteA"
    /\ loaded.scenarios["Ramp"] = "local"
    /\ loaded.scenarios["Scale"] = "remoteB"

----------------------------------------------------------------------------
(* Claims about the remaining-stock rows (Spec).                           *)

\* C19: stockRemainingAfterProduction returns one row per stock item, in
\* input order, with remainingQty = onHandQty - consumedQty, consumedQty
\* the consumption computed for the item; remainingQty is not clamped and
\* is negative when consumption exceeds the on-hand quantity.
C19RemainingNotClamped ==
    pc = "stock" =>
        /\ Len(stockRows) = Len(stock)
        /\ \A i \in 1..Len(stock) :
              /\ stockRows[i].id = stock[i].id
              /\ stockRows[i].name = stock[i].name
              /\ stockRows[i].onHandQty = stock[i].onHandQty
              /\ stockRows[i].consumedQty = consumed[stock[i].id]
              /\ stockRows[i].remainingQty =
                    stock[i].onHandQty - consumed[stock[i].id]
              /\ consumed[stock[i].id] > stock[i].onHandQty =>
                    stockRows[i].remainingQty < 0

\* Two units consumed: Resin (usage 2, 3 on hand) is 1 short, Cap (usage 1,
\* 3 on hand) has 1 left.
C19Witness ==
    /\ pc = "stock"
    /\ stockRows[1].consumedQty = 4
    /\ stockRows[1].remainingQty = -1
    /\ stockRows[2].consumedQty = 2
    /\ stockRows[2].remainingQty = 1
    /\ stockRows[2].status = "OK"

----------------------------------------------------------------------------
(* Six-pack capability (calc.ts).                                          *)

\* SixPackInput.flaggedPass: undefined, or a boolean.
NoFlag == [defined |-> FALSE, value |-> FALSE]

Flag(b) == [defined |-> TRUE, value |-> b]

\* Boolean(x)
ToBoolean(x) == x.defined /\ x.value

evaluateSixPack_cpOnly(row) ==
    IF row.mode = "flags"
        THEN [pass |-> ToBoolean(row.flaggedPass), cp |-> Zero, cpk |-> Zero]
    ELSE IF ~ QLess(Zero, row.stdDev)
        THEN [pass |-> FALSE, cp |-> Zero, cpk |-> Zero]
    ELSE LET cp == QDiv(QSub(row.usl, row.lsl), QMul(Q(6, 1), row.stdDev))
             cpu == QDiv(QSub(row.usl, row.mean), QMul(Q(3, 1), row.stdDev))
             cpl == QDiv(QSub(row.mean, row.lsl), QMul(Q(3, 1), row.stdDev))
             cpk == QMin(cpu, cpl)
         IN  [pass |-> ~ QLess(cp, Q(133, 100)), cp |-> cp, cpk |-> cpk]

evaluateSixPack(row) ==
    IF row.mode = "flags"
        THEN [pass |-> ToBoolean(row.flaggedPass), cp |-> Zero, cpk |-> Zero]
    ELSE IF ~ QLess(Zero, row.stdDev)
        THEN [pass |-> FALSE, cp |-> Zero, cpk |-> Zero]
    ELSE LET cp == QDiv(QSub(row.usl, row.lsl), QMul(Q(6, 1), row.stdDev))
             cpu == QDiv(QSub(row.usl, row.mean), QMul(Q(3, 1), row.stdDev))
             cpl == QDiv(QSub(row.mean, row.lsl), QMul(Q(3, 1), row.stdDev))
             cpk == QMin(cpu, cpl)
         IN  [pass |-> ~ QLess(cp, Q(133, 100)) /\ ~ QLess(cpk, Q(133, 100)),
              cp |-> cp, cpk |-> cpk]

----------------------------------------------------------------------------
(* SpecQuality: one six-pack row is evaluated.                             *)

SixPackRows ==
    { [mode |-> mode, flaggedPass |-> flag, mean |-> mean, stdDev |-> sd,
       lsl |-> Zero, usl |-> usl] :
        mode \in {"computed", "flags"},
        flag \in {NoFlag, Flag(TRUE), Flag(FALSE)},
        mean \in { Q(150, 1), Q(399, 2), Q(200, 1) },
        sd \in { Q(-50, 1), Zero, Q(50, 1) },
        usl \in { Q(398, 1), Q(399, 1), Q(800, 1) } }

InitQuality ==
    /\ pc = "input"
    /\ tzOffsetHours = 0
    /\ stock = << >> /\ batches = << >> /\ schedule = << >>
    /\ maintenanceBlocks = << >> /\ inventory = << >> /\ production = << >>
    /\ consumed = << >> /\ stockRows = << >> /\ today = 0 /\ risk = NoRisk
    /\ gridStart = 0 /\ conflictFlags = << >> /\ invConsumed = << >>
    /\ IdleCalendar /\ IdleApp
    /\ IdleClock /\ IdleParse /\ IdleCost /\ IdleCapacity /\ IdleStore
    /\ sixPack \in SixPackRows
    /\ sixPackResult = << >>

\* The quality view evaluates the row.
EvaluateSixPack ==
    /\ pc = "input"
    /\ pc' = "sixpack"
    /\ sixPackResult' = evaluateSixPack(sixPack)
    /\ UNCHANGED << calendarVars, appVars,
                    tzOffsetHours, stock, batches, schedule, maintenanceBlocks,
                    consumed, stockRows, today, risk, gridStart, conflictFlags,
                    inventory, production, invConsumed, clockVars, parsed,
                    costVars, capacityVars, storeVars, sixPack >>

NextQuality == EvaluateSixPack

SpecQuality == InitQuality /\ [][NextQuality]_vars

\* cp and cpk of the row as the claim writes them, by cross-multiplication
\* (stdDev > 0): cp >= 1.33 and cpk >= 1.33.
CapableAsStated(row) ==
    LET spread == QSub(row.usl, row.lsl)
        nearest == QMin(QSub(row.usl, row.mean), QSub(row.mean, row.lsl))
        limit == Q(133, 100)
    IN  /\ ~ QLess(spread, QMul(limit, QMul(Q(6, 1), row.stdDev)))
        /\ ~ QLess(nearest, QMul(limit, QMul(Q(3, 1), row.stdDev)))

\* C20: in flags mode pass is flaggedPass (false when absent) whatever the
\* numbers are; in computed mode pass holds iff stdDev > 0 and
\* cp = (usl - lsl) / (6 stdDev) >= 1.33 and
\* cpk = min(usl - mean, mean - lsl) / (3 stdDev) >= 1.33.
C20SixPackPass ==
    pc = "sixpack" =>
        /\ sixPack.mode = "flags" =>
              sixPackResult.pass = (sixPack.flaggedPass = Flag(TRUE))
        /\ sixPack.mode = "computed" =>
              sixPackResult.pass =
                  (QLess(Zero, sixPack.stdDev) /\ CapableAsStated(sixPack))

\* A computed row wide enough for cp but off-centre: cp passes, cpk = 1
\* does not, the row fails.
C20Witness ==
    /\ pc = "sixpack"
    /\ sixPack.mode = "computed"
    /\ sixPack.flaggedPass = Flag(TRUE)
    /\ QLess(Zero, sixPack.stdDev)
    /\ sixPackResult.cp = Q(8, 3)
    /\ sixPackResult.cpk = Q(1, 1)
    /\ ~ sixPackResult.pass

----------------------------------------------------------------------------
(* Claims about the booking tally of the conflict detector (SpecSchedule). *)

\* The live entries that list resource r and whose calendar span holds day d.
BookingsOn(d, r, kind) ==
    { i \in 1..Len(schedule) :
        /\ schedule[i].status # "Cancelled"
        /\ r \in (IF kind = "people" THEN PeopleOf(schedule[i])
                  ELSE MachinesOf(schedule[i]))
        /\ d \in CalendarSpan(schedule[i]) }

----------------------------------------------------------------------------
(* SpecCalendar: the editing handlers of the production calendar           *)
(* (ProductionCalendar.tsx), each followed by the App's recomputation of   *)
(* the stock consumption of the edited snapshot.                           *)

MaxOps == 2        \* number of calendar handlers run after the snapshot

\* Math.round((new Date(b + 'T00:00:00') - new Date(a + 'T00:00:00')) / 86400000)
daysBetween(a, b, tz) == (localMidnight(b, tz) - localMidnight(a, tz) + 12) \div 24

\* crypto.randomUUID(): the n-th id handed out, different from all others.
randomUUID(n) == << "u1", "u2", "u3", "u4", "u5", "u6", "u7", "u8", "u9", "u10" >>[n]

\* A batch row of the calendar's batch table.
CalendarBatch(id, status, goodQty) ==
    [id |-> id, goodQty |-> goodQty, scrapStage |-> "Assembly", scrapQty |-> 0,
     componentRejects |-> << >>, status |-> status]

Capa(id, batchId) == [id |-> id, batchId |-> batchId, status |-> "Open"]

findEvent(s, id) ==
    LET hits == {i \in 1..Len(s) : s[i].id = id}
    IN  IF hits = {} THEN 0 ELSE CHOOSE i \in hits : \A j \in hits : i <= j

getBatchStatus(bs, batchId) ==
    LET hits == {i \in 1..Len(bs) : bs[i].id = batchId}
    IN  IF hits = {} THEN "Planned"
        ELSE bs[CHOOSE i \in hits : \A j \in hits : i <= j].status

unscheduledBatches(s) ==
    FilterSeq(s.batches,
              {b \in {s.batches[i] : i \in 1..Len(s.batches)} :
                  ~\E k \in 1..Len(s.schedule) : s.schedule[k].batchId = b.id})

createChainForBatchOnDay(s, batchId, startDay, tz, uuid) ==
    LET baseDate == localMidnight(startDay, tz)
        created == [idx \in 1..Len(s.processes) |->
                       Scheduled(randomUUID(uuid + idx), batchId,
                                 s.processes[idx].id,
                                 getBatchStatus(s.batches, batchId),
                                 ymd(addDays(baseDate, idx - 1)), 1, << >>, << >>)]
    IN  s.schedule \o created

moveEventOrBatchToDay(s, eventId, targetDay, whole, tz) ==
    LET at == findEvent(s.schedule, eventId)
    IN  IF at = 0 THEN s.schedule
        ELSE IF ~whole
            THEN [k \in 1..Len(s.schedule) |->
                     IF s.schedule[k].id = eventId
                         THEN [s.schedule[k] EXCEPT !.date = targetDay]
                         ELSE s.schedule[k]]
        ELSE LET evt == s.schedule[at]
                 delta == daysBetween(evt.date, targetDay, tz)
             IN  [k \in 1..Len(s.schedule) |->
                     IF s.schedule[k].batchId # evt.batchId THEN s.schedule[k]
                     ELSE [s.schedule[k] EXCEPT
                              !.date = ymd(addDays(localMidnight(@, tz), delta))]]

updateEvent(s, selected, field, value) ==
    [k \in 1..Len(s.schedule) |->
        IF s.schedule[k].id # selected THEN s.schedule[k]
        ELSE IF field = "status" THEN [s.schedule[k] EXCEPT !.status = value]
        ELSE IF field = "processId" THEN [s.schedule[k] EXCEPT !.processId = value]
        ELSE [s.schedule[k] EXCEPT !.durationDays = IF value > 1 THEN value ELSE 1]]

removeEvent(s, selected) ==
    FilterSeq(s.schedule,
              {e \in {s.schedule[k] : k \in 1..Len(s.schedule)} : e.id # selected})

removeBatchChain(s, bid) ==
    FilterSeq(s.schedule,
              {e \in {s.schedule[k] : k \in 1..Len(s.schedule)} : e.batchId # bid})

deleteBatch_keepChain(s, batchId) ==
    [s EXCEPT
        !.batches = FilterSeq(@, {b \in {s.batches[i] : i \in 1..Len(s.batches)} :
                                     b.id # batchId}),
        !.capas = [k \in 1..Len(s.capas) |->
                      IF s.capas[k].batchId = batchId
                          THEN [s.capas[k] EXCEPT !.batchId = ""]
                          ELSE s.capas[k]]]

deleteBatch(s, batchId) ==
    [s EXCEPT
        !.batches = FilterSeq(@, {b \in {s.batches[i] : i \in 1..Len(s.batches)} :
                                     b.id # batchId}),
        !.schedule = removeBatchChain(s, batchId),
        !.capas = [k \in 1..Len(s.capas) |->
                      IF s.capas[k].batchId = batchId
                          THEN [s.capas[k] EXCEPT !.batchId = ""]
                          ELSE s.capas[k]]]

\* The snapshot the calendar receives as its scenario prop.
CalendarScenario ==
    [stock |-> stock, processes |-> processes, batches |-> batches,
     schedule |-> schedule, maintenanceBlocks |-> maintenanceBlocks,
     capas |-> capas]

\* The handler that ran as the n-th edit, with its arguments.
Op(name, id, day) == [op |-> name, id |-> id, day |-> day, n |-> lastOp.n + 1]

CalendarStatuses == {"Planned", "Complete"}
CalendarDays == {1, 3}

InitialChains ==
    { << >>,
      << Scheduled("e1", "b1", "p1", "Complete", 1, 1, << >>, << >>),
         Scheduled("e2", "b1", "p2", "Planned", 2, 1, << >>, << >>) >> }

InitCalendar ==
    /\ pc = "input"
    /\ tzOffsetHours \in TimeZones
    /\ stock = DefaultStock
    /\ \E st \in CalendarStatuses :
           batches \in { << CalendarBatch("b1", st, 1) >>,
                         << CalendarBatch("b1", st, 1),
                            CalendarBatch("b2", "Planned", 1) >> }
    /\ schedule \in InitialChains
    /\ maintenanceBlocks = << >>
    /\ inventory = << >>
    /\ production = << >>
    /\ capas = << Capa("c1", "b1"), Capa("c2", "") >>
    /\ selectedEventId = "null"
    /\ moveWholeBatch = TRUE
    /\ nextUuid = 0
    /\ lastOp = NoOp
    /\ consumed = stockConsumptionFromCompletedBatches(CalendarScenario)
    /\ stockRows = << >> /\ today = 0 /\ risk = NoRisk /\ gridStart = 0
    /\ conflictFlags = << >> /\ invConsumed = << >>
    /\ IdleClock /\ IdleParse /\ IdleCost /\ IdleCapacity /\ IdleStore
    /\ IdleQuality /\ IdleApp

\* onChange(next): the App stores the edited snapshot and recomputes the
\* stock consumption it shows.
Commit(next, op, uuids) ==
    /\ lastOp.n < MaxOps
    /\ pc' = "calendar"
    /\ batches' = next.batches
    /\ schedule' = next.schedule
    /\ capas' = next.capas
    /\ consumed' = stockConsumptionFromCompletedBatches(next)
    /\ nextUuid' = nextUuid + uuids
    /\ lastOp' = op
    /\ UNCHANGED << tzOffsetHours, stock, maintenanceBlocks, stockRows, today,
                    risk, gridStart, conflictFlags, inventory, production,
                    invConsumed, clockVars, parsed, costVars, capacityVars,
                    storeVars, qualityVars, appVars >>

\* "+ Add batch"
AddBatch ==
    /\ Commit([CalendarScenario EXCEPT
                  !.batches = Append(@, CalendarBatch(randomUUID(nextUuid + 1),
                                                      "Planned", 0))],
              Op("addBatch", randomUUID(nextUuid + 1), 0), 1)
    /\ UNCHANGED << selectedEventId, moveWholeBatch >>

\* The status select of the batch table.
UpdateBatchStatus ==
    \E i \in 1..Len(batches) : \E st \in CalendarStatuses :
        /\ batches[i].status # st
        /\ Commit([CalendarScenario EXCEPT !.batches[i].status = st],
                  Op("updateBatch", batches[i].id, 0), 0)
        /\ UNCHANGED << selectedEventId, moveWholeBatch >>

\* onDrop, kind = 'batch': the pills of the unscheduled batches are draggable.
CreateChainForBatchOnDay ==
    \E i \in 1..Len(unscheduledBatches(CalendarScenario)) : \E day \in CalendarDays :
        LET batchId == unscheduledBatches(CalendarScenario)[i].id
        IN  /\ Commit([CalendarScenario EXCEPT
                          !.schedule = createChainForBatchOnDay(
                                           CalendarScenario, batchId, day,
                                           tzOffsetHours, nextUuid)],
                      Op("createChain", batchId, day), Len(processes))
            /\ selectedEventId' = IF Len(processes) > 0
                                      THEN randomUUID(nextUuid + 1)
                                      ELSE selectedEventId
            /\ UNCHANGED moveWholeBatch

\* onDrop, kind = 'event'; "gone" is the id of no entry.
MoveEventOrBatchToDay ==
    \E eventId \in {schedule[k].id : k \in 1..Len(schedule)} \cup {"gone"} :
    \E day \in CalendarDays :
        IF findEvent(schedule, eventId) = 0
            THEN /\ lastOp.n < MaxOps
                 /\ pc' = "calendar"
                 /\ lastOp' = Op("moveNothing", eventId, day)
                 /\ UNCHANGED << batches, schedule, capas, consumed, nextUuid,
                                 selectedEventId, moveWholeBatch,
                                 tzOffsetHours, stock, maintenanceBlocks,
                                 stockRows, today, risk, gridStart,
                                 conflictFlags, inventory, production,
                                 invConsumed, clockVars, parsed, costVars,
                                 capacityVars, storeVars, qualityVars, appVars >>
            ELSE /\ Commit([CalendarScenario EXCEPT
                               !.schedule = moveEventOrBatchToDay(
                                                CalendarScenario, eventId, day,
                                                moveWholeBatch, tzOffsetHours)],
                           Op(IF moveWholeBatch THEN "moveBatch" ELSE "moveEvent",
                              eventId, day), 0)
                 /\ selectedEventId' = eventId
                 /\ UNCHANGED moveWholeBatch

CalendarUiUnchanged ==
    UNCHANGED << pc, batches, schedule, capas, consumed, nextUuid, lastOp,
                 tzOffsetHours, stock, maintenanceBlocks, stockRows, today,
                 risk, gridStart, conflictFlags, inventory, production,
                 invConsumed, clockVars, parsed, costVars, capacityVars,
                 storeVars, qualityVars, appVars >>

\* The "move whole batch" checkbox.
SetMoveWholeBatch ==
    /\ moveWholeBatch' = ~moveWholeBatch
    /\ UNCHANGED selectedEventId
    /\ CalendarUiUnchanged

\* A click on an entry of the grid.
SelectEvent ==
    \E k \in 1..Len(schedule) :
        /\ selectedEventId # schedule[k].id
        /\ selectedEventId' = schedule[k].id
        /\ UNCHANGED moveWholeBatch
        /\ CalendarUiUnchanged

\* The editor of the selected entry: status, process and duration fields.
UpdateEvent ==
    /\ findEvent(schedule, selectedEventId) # 0
    /\ \E patch \in ({"status"} \X {"Planned", "Complete"})
                    \cup ({"processId"} \X {"p2"})
                    \cup ({"durationDays"} \X {2}) :
           Commit([CalendarScenario EXCEPT
                      !.schedule = updateEvent(CalendarScenario, selectedEventId,
                                               patch[1], patch[2])],
                  Op("updateEvent", selectedEventId, 0), 0)
    /\ UNCHANGED << selectedEventId, moveWholeBatch >>

RemoveEvent ==
    /\ findEvent(schedule, selectedEventId) # 0
    /\ Commit([CalendarScenario EXCEPT
                  !.schedule = removeEvent(CalendarScenario, selectedEventId)],
              Op("removeEvent", selectedEventId, 0), 0)
    /\ selectedEventId' = "null"
    /\ UNCHANGED moveWholeBatch

RemoveBatchChain ==
    /\ findEvent(schedule, selectedEventId) # 0
    /\ LET bid == schedule[findEvent(schedule, selectedEventId)].batchId
       IN  Commit([CalendarScenario EXCEPT
                      !.schedule = removeBatchChain(CalendarScenario, bid)],
                  Op("removeChain", bid, 0), 0)
    /\ selectedEventId' = "null"
    /\ UNCHANGED moveWholeBatch

\* The Delete button of a row of the batch table.
DeleteBatch ==
    \E i \in 1..Len(batches) :
        LET selected == findEvent(schedule, selectedEventId)
        IN  /\ Commit(deleteBatch(CalendarScenario, batches[i].id),
                      Op("deleteBatch", batches[i].id, 0), 0)
            /\ selectedEventId' =
                   IF selected # 0 /\ schedule[selected].batchId = batches[i].id
                       THEN "null" ELSE selectedEventId
            /\ UNCHANGED moveWholeBatch

NextCalendar ==
    \/ AddBatch
    \/ UpdateBatchStatus
    \/ CreateChainForBatchOnDay
    \/ MoveEventOrBatchToDay
    \/ SetMoveWholeBatch
    \/ SelectEvent
    \/ UpdateEvent
    \/ RemoveEvent
    \/ RemoveBatchChain
    \/ DeleteBatch

SpecCalendar == InitCalendar /\ [][NextCalendar]_vars

----------------------------------------------------------------------------
(* C22: the completion gate, under calendar edits.                         *)

\* Some entry of the schedule references the batch and is Complete.
HasCompleteEntry(b) ==
    \E k \in 1..Len(schedule) :
        schedule[k].batchId = b.id /\ schedule[k].status = "Complete"

\* The snapshot without its i-th batch.
WithoutBatch(i) ==
    [CalendarScenario EXCEPT
        !.batches = SubSeq(batches, 1, i - 1) \o SubSeq(batches, i + 1, Len(batches))]

\* C22: the consumption map has an entry for every stock item; a batch none
\* of whose scheduled entries is Complete contributes nothing to any item,
\* whatever its own status field says (the consumption is that of the snapshot
\* without the batch), and when no batch has a Complete entry every item's
\* consumption is 0. This holds after every calendar edit, so taking the
\* Complete status off the entry, or removing the entry, takes the batch's
\* consumption away again.
C22CompletionGate ==
    /\ DOMAIN consumed = {stock[k].id : k \in 1..Len(stock)}
    /\ \A i \in 1..Len(batches) :
           ~HasCompleteEntry(batches[i]) =>
               consumed = stockConsumptionFromCompletedBatches(WithoutBatch(i))
    /\ (\A i \in 1..Len(batches) : ~HasCompleteEntry(batches[i]))
           => \A id \in DOMAIN consumed : consumed[id] = 0

\* The editor has just taken the Complete status off the only Complete entry
\* of a batch whose own status is Complete and whose good quantity is positive.
C22Witness ==
    /\ lastOp.op = "updateEvent"
    /\ batches[1].status = "Complete" /\ batches[1].goodQty > 0
    /\ \E k \in 1..Len(schedule) : schedule[k].batchId = batches[1].id
    /\ ~HasCompleteEntry(batches[1])
    /\ consumed["s1"] = 0 /\ consumed["s2"] = 0

----------------------------------------------------------------------------
(* C23, C24: the scrap of an Assembly-stage batch against its rejects text. *)

\* C23: for a gate-open batch with Assembly-stage scrap and at least one
\* reject line that names a stock item with a quantity, the scrap consumption
\* of every item is the sum of the quantities of the lines naming it; the
\* scrap quantity itself adds no BOM consumption (the batch has no good units,
\* so the consumption is the scrap consumption).
C23ItemizedScrap ==
    pc = "stock" =>
        LET b == batches[1]
        IN  ( /\ b.scrapStage = "Assembly" /\ b.scrapQty > 0
              /\ \E i \in 1..Len(b.componentRejects) : WellFormed(b.componentRejects[i]) )
            => \A k \in 1..Len(stock) :
                   consumed[stock[k].id] = SumWellFormed(b.componentRejects, stock[k].id, 1)

\* Two lines name Resin and none names Cap: Resin 1 + 2, Cap 0, although the
\* BOM of the one scrapped unit would be Resin 2, Cap 1.
C23Witness ==
    /\ pc = "stock"
    /\ batches[1].scrapQty = 1
    /\ batches[1].componentRejects = << << "Resin", "1" >>, << "RESIN", " 2" >> >>
    /\ consumed["s1"] = 3 /\ consumed["s2"] = 0

\* C24: scrap is never dropped: when the rejects text itemizes no quantity for
\* a known item (empty text, only malformed or unknown lines, or a missing
\* quantity after the comma), the scrap falls back to the full BOM, scrapQty x
\* usage for every item; so the scrap of a gate-open batch always consumes
\* something.
C24ScrapNeverDropped ==
    pc = "stock" =>
        LET b == batches[1]
            itemized == \E i \in 1..Len(b.componentRejects) :
                            WellFormed(b.componentRejects[i])
        IN  /\ (b.scrapQty > 0 /\ ~itemized)
                   => \A k \in 1..Len(stock) :
                          consumed[stock[k].id] =
                              b.scrapQty * stock[k].usagePerFinishedUnit
            /\ b.scrapQty > 0 => \E k \in 1..Len(stock) : consumed[stock[k].id] > 0

----------------------------------------------------------------------------
(* C25 - C27: the calendar handlers.                                       *)

BatchIdsNow == {batches[i].id : i \in 1..Len(batches)}

\* The step is the run of the named handler.
Ran(name) == lastOp'.n = lastOp.n + 1 /\ lastOp'.op = name

\* Every entry references a batch of the snapshot, and every CAPA is unlinked
\* or references a batch of the snapshot.
ReferencesResolve ==
    /\ \A k \in 1..Len(schedule) : schedule[k].batchId \in BatchIdsNow
    /\ \A k \in 1..Len(capas) : capas[k].batchId \in BatchIdsNow \cup {""}

\* deleteBatch removes the batch and exactly its entries, and keeps every
\* CAPA, with the link of those of the deleted batch emptied.
DeleteUnlinks ==
    Ran("deleteBatch") =>
        /\ lastOp'.id \notin {batches'[i].id : i \in 1..Len(batches')}
        /\ schedule' = removeBatchChain(CalendarScenario, lastOp'.id)
        /\ Len(capas') = Len(capas)
        /\ \A k \in 1..Len(capas) :
               /\ capas'[k].id = capas[k].id
               /\ capas'[k].batchId =
                      IF capas[k].batchId = lastOp'.id THEN "" ELSE capas[k].batchId

\* C25: from a snapshot whose entries all reference existing batches, after
\* any sequence of calendar handlers every entry's batchId is the id of an
\* existing batch and no CAPA carries the id of a deleted batch; deleting a
\* batch removes all of its entries and unlinks, without deleting, its CAPAs.
C25ReferentialIntegrity == []ReferencesResolve /\ [][DeleteUnlinks]_vars

\* The only batch, which has a CAPA, was given a chain and then deleted: both
\* CAPAs are still there, unlinked, and the chain is gone.
C25Witness ==
    /\ lastOp.op = "deleteBatch" /\ lastOp.id = "b1" /\ lastOp.n = 2
    /\ nextUuid = Len(processes)
    /\ batches = << >> /\ schedule = << >>
    /\ capas = << Capa("c1", ""), Capa("c2", "") >>

\* The status of the batch with the given id.
StatusOfBatch(id) == batches[CHOOSE i \in 1..Len(batches) : batches[i].id = id].status

ChainAppended ==
    Ran("createChain") =>
        LET D == lastOp'.day
            b == lastOp'.id
            n == Len(schedule)
        IN  /\ Len(schedule') = n + Len(processes)
            /\ SubSeq(schedule', 1, n) = schedule
            /\ \A k \in 1..Len(processes) :
                   LET x == schedule'[n + k]
                   IN  /\ x.batchId = b
                       /\ x.processId = processes[k].id
                       /\ x.date = D + (k - 1)
                       /\ x.durationDays = 1
                       /\ x.assignedPeopleIdsCsv = << >>
                       /\ x.assignedMachineIdsCsv = << >>
                       /\ x.status = StatusOfBatch(b)
            /\ Len(processes) > 0 =>
                   \A i \in 1..Len(unscheduledBatches(CalendarScenario')) :
                       unscheduledBatches(CalendarScenario')[i].id # b

\* C26: dropping an unscheduled batch on day D appends one entry per process
\* template, in template order, the k-th (from 0) dated D + k, with duration
\* 1, nobody and no machine assigned and the batch's current status; the
\* entries that existed are unchanged and the batch is no longer unscheduled.
C26ChainOnDrop == [][ChainAppended]_vars

\* The same, for a runtime whose local time is UTC.
C26ChainOnDropInUtc == [][tzOffsetHours = 0 => ChainAppended]_vars

MovedEntry == findEvent(schedule, lastOp'.id)

OnlyDatesChange ==
    /\ batches' = batches /\ capas' = capas
    /\ Len(schedule') = Len(schedule)
    /\ \A k \in 1..Len(schedule) :
           schedule'[k] = [schedule[k] EXCEPT !.date = schedule'[k].date]

BatchMoved ==
    Ran("moveBatch") =>
        LET evt == schedule[MovedEntry]
            delta == lastOp'.day - evt.date
        IN  /\ OnlyDatesChange
            /\ schedule'[MovedEntry].date = lastOp'.day
            /\ \A k \in 1..Len(schedule) :
                   schedule'[k].date =
                       IF schedule[k].batchId = evt.batchId
                           THEN schedule[k].date + delta
                           ELSE schedule[k].date

EventMoved ==
    Ran("moveEvent") =>
        /\ OnlyDatesChange
        /\ \A k \in 1..Len(schedule) :
               schedule'[k].date =
                   IF schedule[k].id = lastOp'.id THEN lastOp'.day
                                                  ELSE schedule[k].date

NothingMoved ==
    Ran("moveNothing") =>
        /\ batches' = batches /\ capas' = capas /\ schedule' = schedule

\* C27: with "move whole batch" on, dragging an entry to a day shifts every
\* entry of its batch by target - dragged date, so the dragged entry lands on
\* the target day and the offsets within the chain are kept; with it off only
\* the dragged entry's date changes. Entries of other batches and all other
\* fields are unchanged, and the id of no entry changes nothing.
C27MoveToDay == [][BatchMoved /\ EventMoved /\ NothingMoved]_vars

\* The same, for a runtime whose local time is UTC.
C27MoveToDayInUtc ==
    [][tzOffsetHours = 0 => (BatchMoved /\ EventMoved /\ NothingMoved)]_vars

----------------------------------------------------------------------------
(* C28: consistency of the capacity rows.                                  *)

\* C28: every station's shortfallMachines is >= 0 and is > 0 exactly when
\* its utilizationPct exceeds 100; so whenever some station has a shortfall,
\* bottleneckStation reports a station whose utilization exceeds 100. This
\* includes stations with no machine installed or with a cycle time of 0.
C28ShortfallIffOverloaded ==
    pc = "bottleneck" =>
        /\ \A i \in 1..Len(CapacityRows) :
               /\ ~ QLess(CapacityRows[i].shortfallMachines, Zero)
               /\ QLess(Zero, CapacityRows[i].shortfallMachines)
                      <=> QLess(Q(100, 1), CapacityRows[i].utilizationPct)
        /\ (\E i \in 1..Len(CapacityRows) :
                QLess(Zero, CapacityRows[i].shortfallMachines))
               => /\ ~ bottleneck.isNull
                  /\ QLess(Q(100, 1), bottleneck.row.utilizationPct)

\* The same, for snapshots in which every station has a machine installed.
C28WithMachinesInstalled ==
    (\A i \in 1..Len(machines) : machines[i].machinesInstalled # Zero)
        => C28ShortfallIffOverloaded

----------------------------------------------------------------------------
(* SpecApp: the App component's hydration and save effects (App.tsx) over  *)
(* the store (store.ts): mount, the load resolving, user edits, and the    *)
(* upserts and promises of the saves settling in any order.                *)

MaxEdits == 1      \* number of state changes the user makes

\* The payload an edit leaves in the selected scenario.
EditPayload(n) == << "edit1", "edit2", "edit3", "edit4" >>[n]

\* updateScenario: scenarios[selectedScenario] = next
updateScenario(st, next) ==
    [st EXCEPT !.scenarios = (st.selectedScenario :> next) @@ st.scenarios]

\* The rows of the scenarios table, as the start-up query returns them.
TableRows(table) ==
    LET names == FilterSeq(ScenarioOrder, {n \in ScenarioNames : table[n] # "none"})
    IN  [i \in 1..Len(names) |-> [name |-> names[i], payload |-> table[names[i]]]]

\* saveState(state), as far as it runs synchronously: the local write, which
\* can throw, and then one upsert per scenario when a client is configured.
saveState(st, local, supabase) ==
    [state |-> st, local |-> local, settled |-> FALSE,
     upserts |-> [n \in DOMAIN st.scenarios |->
                     IF local = "ok" /\ supabase.configured THEN "pending"
                                                            ELSE "skipped"]]

\* The promise of a save is rejected by a throwing local write or upsert.
Rejected(save) ==
    save.local = "throws" \/ \E n \in DOMAIN save.upserts : save.upserts[n] = "throws"

\* It is fulfilled once every upsert has returned.
Fulfilled(save) ==
    /\ ~Rejected(save)
    /\ \A n \in DOMAIN save.upserts : save.upserts[n] \in {"ok", "error", "skipped"}

InitApp ==
    /\ pc = "input"
    /\ tzOffsetHours = 0
    /\ stock = << >> /\ batches = << >> /\ schedule = << >>
    /\ maintenanceBlocks = << >> /\ inventory = << >> /\ production = << >>
    /\ consumed = << >> /\ stockRows = << >> /\ today = 0 /\ risk = NoRisk
    /\ gridStart = 0 /\ conflictFlags = << >> /\ invConsumed = << >>
    /\ IdleCalendar
    /\ IdleClock /\ IdleParse /\ IdleCost /\ IdleCapacity /\ IdleQuality
    /\ heap = << >> /\ stateRef = 0 /\ nextRef = 0 /\ stateBefore = << >>
    /\ loaded = << >>
    /\ localRaw \in { LocalItem("null", << >>),
                      LocalItem("json", AppStateValue("Pilot",
                                            [n \in ScenarioNames |-> "local"])) }
    /\ remoteStored \in { [n \in ScenarioNames |-> "none"],
                          [n \in ScenarioNames |-> "remoteA"] }
    /\ \E configured \in BOOLEAN : \E error \in BOOLEAN :
           /\ ~configured => (~error /\ remoteStored["Pilot"] = "none")
           /\ remote = [configured |-> configured, error |-> error,
                        data |-> [isNull |-> ~configured \/ error,
                                  rows |-> IF configured /\ ~error
                                               THEN TableRows(remoteStored)
                                               ELSE << >>]]
    /\ appState = defaultState
    /\ loading = TRUE
    /\ hydrated = FALSE
    /\ syncStatus = "idle"
    /\ saves = << >>
    /\ userEdits = 0

\* Promise reactions are microtasks: a promise that can settle does so before
\* the next event is handled.
MicrotasksDone ==
    \A i \in 1..Len(saves) :
        saves[i].settled \/ ~(Rejected(saves[i]) \/ Fulfilled(saves[i]))

AppFrame ==
    UNCHANGED << tzOffsetHours, stock, batches, schedule, maintenanceBlocks,
                 consumed, stockRows, today, risk, gridStart, conflictFlags,
                 inventory, production, invConsumed, clockVars, parsed,
                 costVars, capacityVars, heap, stateRef, nextRef, stateBefore,
                 remote, loaded, qualityVars, calendarVars >>

\* The save effect (deps [loading, state]) after a render with the given
\* state and loading flag.
SaveEffect(st, ld) ==
    IF ld \/ ~hydrated
        THEN /\ hydrated' = TRUE
             /\ UNCHANGED << syncStatus, saves, localRaw >>
        ELSE /\ UNCHANGED hydrated
             /\ syncStatus' = "syncing"
             /\ \E local \in {"ok", "throws"} :
                    /\ saves' = Append(saves, saveState(st, local, remote))
                    /\ localRaw' = IF local = "ok" THEN LocalItem("json", st)
                                                   ELSE localRaw

\* First render: the load effect starts loadState, the save effect runs.
Mount ==
    /\ pc = "input"
    /\ pc' = "app"
    /\ SaveEffect(appState, loading)
    /\ UNCHANGED << appState, loading, remoteStored, userEdits >>
    /\ AppFrame

\* loadState resolves: setState(loaded), setLoading(false), then the render
\* and its effects.
LoadResolved ==
    /\ pc = "app"
    /\ MicrotasksDone
    /\ loading
    /\ appState' = loadState(localRaw, remote)
    /\ loading' = FALSE
    /\ SaveEffect(appState', FALSE)
    /\ UNCHANGED << pc, remoteStored, userEdits >>
    /\ AppFrame

\* The user changes the selected scenario: updateScenario, then the render
\* and its effects.
UserEdit ==
    /\ pc = "app"
    /\ MicrotasksDone
    /\ userEdits < MaxEdits
    /\ userEdits' = userEdits + 1
    /\ appState' = updateScenario(appState, EditPayload(userEdits'))
    /\ SaveEffect(appState', loading)
    /\ UNCHANGED << pc, loading, remoteStored >>
    /\ AppFrame

\* One upsert of one save returns: the row is written, or the reply carries
\* an error (which upsertScenario does not read), or the call throws.
UpsertReturns ==
    \E i \in 1..Len(saves) : \E n \in DOMAIN saves[i].upserts :
    \E outcome \in {"ok", "error", "throws"} :
        /\ MicrotasksDone
        /\ saves[i].upserts[n] = "pending"
        /\ saves' = [saves EXCEPT ![i].upserts[n] = outcome]
        /\ remoteStored' = IF outcome = "ok"
                               THEN [remoteStored EXCEPT ![n] = saves[i].state.scenarios[n]]
                               ELSE remoteStored
        /\ UNCHANGED << pc, appState, loading, hydrated, syncStatus, userEdits,
                        localRaw >>
        /\ AppFrame

\* The promise of a save settles: .then sets 'synced', .catch sets 'error'.
SaveSettles ==
    \E i \in 1..Len(saves) :
        /\ ~saves[i].settled
        /\ Rejected(saves[i]) \/ Fulfilled(saves[i])
        /\ saves' = [saves EXCEPT ![i].settled = TRUE]
        /\ syncStatus' = IF Rejected(saves[i]) THEN "error" ELSE "synced"
        /\ UNCHANGED << pc, appState, loading, hydrated, remoteStored, userEdits,
                        localRaw >>
        /\ AppFrame

NextApp ==
    \/ Mount
    \/ LoadResolved
    \/ UserEdit
    \/ UpsertReturns
    \/ SaveSettles

SpecApp == InitApp /\ [][NextApp]_vars

\* C29: whenever the App shows 'synced', the state it shows is the one in
\* local storage and, with a Supabase client, the one in the scenarios table,
\* every upsert of its save having succeeded; and a save whose local write or
\* upsert failed has set 'error', not 'synced'.
C29SyncedMeansPersisted ==
    syncStatus = "synced" =>
        /\ saves # << >>
        /\ saves[Len(saves)].state = appState
        /\ localRaw = LocalItem("json", appState)
        /\ remote.configured =>
               \A n \in DOMAIN appState.scenarios :
                   /\ saves[Len(saves)].upserts[n] = "ok"
                   /\ remoteStored[n] = appState.scenarios[n]

\* The same, while a single save has been started and each of its upserts
\* has either written its row or thrown.
C29OneSaveNoErrorReply ==
    ( /\ Len(saves) <= 1
      /\ \A i \in 1..Len(saves) : \A n \in DOMAIN saves[i].upserts :
             saves[i].upserts[n] # "error" )
        => C29SyncedMeansPersisted

\* C30: until the user changes the state no save is started, so the data of
\* a load that fell back to the local or default state is not written to the
\* scenarios table without a user edit.
C30NoSaveBeforeEdit ==
    userEdits = 0 =>
        /\ saves = << >>
        /\ \A n \in DOMAIN remoteStored : remoteStored[n] \in {"none", "remoteA"}

====
